---- MODULE Spec2Model ----
(***************************************************************************)
(* State-machine model of phitigra's SimpleGraphEditor                     *)
(* (src/phitigra/simple_editor.py): the pointer handlers, the tool         *)
(* selector, the layout selector and the "clear drawing" button, acting    *)
(* on the graph, its position store, the view transform, the selection     *)
(* and the per-tool gesture attributes.                                    *)
(*                                                                         *)
(* Every method of the editor is an operator from an editor state (a       *)
(* record with one field per attribute) to the editor state after the      *)
(* call; the field exc records that the call raised, in which case the     *)
(* rest of the calling handler is skipped and the attributes assigned      *)
(* before the raise keep their new values.  Drawing commands and the text  *)
(* labels are not part of the state; a drawing method is modelled by the   *)
(* condition under which it raises.                                        *)
(***************************************************************************)
EXTENDS Integers, Sequences, FiniteSets, TLC

(***************************************************************************)
(* Bounds of the model                                                     *)
(***************************************************************************)
\* Largest order of the graph explored with the drawing tools: a step that
\* would leave the graph with more vertices is not taken.
MaxVertices == 3

\* The same where vertices are dragged, and where all six tools are used.
MaxDragVertices == 2

MaxPanelVertices == 2

\* Largest absolute value of a translation entry of the view transform that
\* is explored: a pan that would exceed it is not taken.
MaxShift == 9

\* The pointer-moves considered between a press and its release.
MaxMoves == 2

\* Largest order of the graph explored with the layout selector.
MaxLayoutVertices == 2

\* Largest order of the graph, largest number of zoom steps away from the
\* initial scale and largest translation explored with the zoom buttons.
MaxViewVertices == 2

MaxZoom == 1

\* Largest order of the graph explored with the zoom-to-fit button.
MaxFitVertices == 2

\* Largest order of the graph explored after the constructor.
MaxConstructVertices == 2

\* Largest order of the TalkyGraph explored.
MaxTalkyVertices == 3

\* Largest number of calls the notify callback receives.
MaxNotifications == 2
MaxSharedVertices == 2

MaxViewShift == 400

(***************************************************************************)
(* Program constants                                                       *)
(***************************************************************************)
None == -1
NoPoint == <<>>
NoAttr == <<>>
DefaultRadius == 20
CanvasWidth == 600
CanvasHeight == 400
RadiusMin == 1
RadiusMax == 100
LayoutMargin == 5
ClickThreshold == 10
EdgeSlack == 10
EdgeMinDist == 10
DefaultEdgeColor == "black"
InitialEdgeColor == "black"
\* None where a colour is expected
NoColor == "None"
ColorSelectorValue == "#437FC0"

\* self.drawing_parameters before the update with the constructor's argument
DefaultParameters ==
    [width |-> CanvasWidth, height |-> CanvasHeight,
     default_radius |-> DefaultRadius, default_vertex_color |-> NoColor,
     default_edge_color |-> DefaultEdgeColor]

Tools == {"select / move", "add vertex or edge", "delete vertex or edge",
          "add walk", "add clique", "add star"}

\* The values of the layout selector other than '- change layout -'
LayoutNames == {"random", "spring", "circular", "planar",
                "forest (root up)", "forest (root down)", "acyclic"}

\* Coordinates a layout gives to a vertex.
LayoutPoints == {<<0, 0>>, <<1, 0>>, <<1, 1>>}

\* Pixel points at which pointer events are delivered.
\* The second is 9 px from the first on both axes, the third 11 px from the
\* second on the x axis and 20 px from the first; the third lies 2 px from
\* the segment between the first and the fourth.
Pixels == {<<100, 100>>, <<109, 109>>, <<120, 102>>, <<200, 100>>}

(***************************************************************************)
(* Exact rationals <<n, d>> with d > 0, in lowest terms (Sage's ZZ and QQ) *)
(***************************************************************************)
Abs(x) == IF x < 0 THEN -x ELSE x

RECURSIVE Gcd(_, _)
Gcd(a, b) == IF b = 0 THEN a ELSE Gcd(b, a % b)

Rat(n, d) ==
    IF d = 1 THEN <<n, 1>> ELSE
    LET g == Gcd(Abs(n), Abs(d))
        s == IF d < 0 THEN -1 ELSE 1
    IN  <<(s * n) \div g, (s * d) \div g>>

RInt(n) == <<n, 1>>
RAdd(p, q) == Rat(p[1] * q[2] + q[1] * p[2], p[2] * q[2])
RSub(p, q) == Rat(p[1] * q[2] - q[1] * p[2], p[2] * q[2])
RMul(p, q) == Rat(p[1] * q[1], p[2] * q[2])
RDiv(p, q) == Rat(p[1] * q[2], p[2] * q[1])
RLess(p, q) == p[1] * q[2] < q[1] * p[2]
\* Python's int(): truncation towards zero
Trunc(p) == IF p[1] >= 0 THEN p[1] \div p[2] ELSE -((-p[1]) \div p[2])

(***************************************************************************)
(* The editor's attributes                                                 *)
(***************************************************************************)
\* The SimpleGraphEditor instance: one field per attribute.
\*   directed               self.graph.is_directed()
\*   V, E                   vertices and edges <<u, v>> of self.graph
\*   pos                    self.graph.get_pos(): vertex -> <<x, y>>, rationals
\*   tm                     self._transform_matrix: diagonal a, d and
\*                          translation tx, ty (the other entries are 0, 0, 1);
\*                          rdf when its entries are doubles (a matrix over
\*                          RDF), whose values are taken as exact rationals
\*   tool                   self.tool_selector.value
\*   current_clique         NoAttr when the attribute does not exist
\*   current_walk_vertex, current_star_center, current_star_leaf
\*                          None when the attribute does not exist
\*   vertex_radius_box      self.vertex_radius_box.value
\*   drawing_parameters     self.drawing_parameters
\*   exc                    the running handler has raised (FALSE between
\*                          handlers)
\*   loop_asked             some call graph.add_edge((u, v, label)) had u = v
VARIABLE ed

\* A second editor, for the programs that build two of them, and a
\* TalkyGraph, for the programs that build one (talky_graph.py); NoObject
\* when the program builds none
VARIABLE other

VARIABLE tg

vars == <<ed, other, tg>>

NoObject == [built |-> FALSE]

\* The handler ends in state s (an exception is captured by the output
\* widget, the attributes keep what was assigned before it).
Captured(s) == [s EXCEPT !.exc = FALSE]

Becomes(s) == ed' = Captured(s) /\ UNCHANGED <<other, tg>>

\* The program builds one editor and nothing else
OnlyEditor == other = NoObject /\ tg = NoObject

\* The state s is within the explored bounds
Within(s, maxv, maxshift) ==
    /\ Cardinality(s.V) <= maxv
    /\ Abs(Trunc(s.tm.tx)) <= maxshift
    /\ Abs(Trunc(s.tm.ty)) <= maxshift

Raise(s) == [s EXCEPT !.exc = TRUE]

\* d with key k set to val (a Python dict assignment d[k] = val)
DictSet(d, k, val) ==
    [x \in (DOMAIN d) \cup {k} |-> IF x = k THEN val ELSE d[x]]
DictDel(d, k) == [x \in (DOMAIN d) \ {k} |-> d[x]]
EmptyDict == [x \in {} |-> 0]

(***************************************************************************)
(* Coordinates, hit tests                                                  *)
(***************************************************************************)
_get_radius(s, v) ==
    IF v \in DOMAIN s.vertex_radii THEN s.vertex_radii[v]
    ELSE s.drawing_parameters.default_radius

\* m = self._transform_matrix * (x, y, 1); x and y are rationals
_get_coord_on_canvas(s, x, y) ==
    <<Trunc(RAdd(RMul(s.tm.a, x), s.tm.tx)),
      Trunc(RAdd(RMul(s.tm.d, y), s.tm.ty))>>

_get_vertex_pos(s, v) == _get_coord_on_canvas(s, s.pos[v][1], s.pos[v][2])

\* The values int(m) can take for a computed m of exact value e: when m is
\* a double and e an integer, m may lie just under or just over e
IntValues(e, rdf) ==
    IF rdf /\ e[2] = 1 /\ e[1] > 0 THEN {e[1] - 1, e[1]}
    ELSE IF rdf /\ e[2] = 1 /\ e[1] < 0 THEN {e[1], e[1] + 1}
    ELSE {Trunc(e)}

\* The values _get_coord_on_canvas(x, y) can return, rounding of the
\* doubles included
_get_coord_on_canvas_values(s, x, y) ==
    IntValues(RAdd(RMul(s.tm.a, x), s.tm.tx), s.tm.rdf)
        \X IntValues(RAdd(RMul(s.tm.d, y), s.tm.ty), s.tm.rdf)

_get_vertex_pos_values(s, v) ==
    _get_coord_on_canvas_values(s, s.pos[v][1], s.pos[v][2])

\* _get_vertices_pos raises KeyError when a vertex has no position
_get_vertices_pos_ok(s) == \A v \in s.V : v \in DOMAIN s.pos

SqDist(s, v, x, y) ==
    LET c == _get_vertex_pos(s, v)
    IN  (x - c[1]) * (x - c[1]) + (y - c[2]) * (y - c[2])

\* VertexShapesAt with the bounding box one pixel smaller on each side
VertexShapesAt_smaller_box(s, x, y) ==
    {v \in s.V :
        LET c == _get_vertex_pos(s, v)
            radius == _get_radius(s, v)
        IN  /\ Abs(x - c[1]) < radius - 1
            /\ Abs(y - c[2]) < radius - 1
            /\ SqDist(s, v, x, y) <= radius * radius
            /\ SqDist(s, v, x, y)
                   < s.drawing_parameters.width * s.drawing_parameters.width}

\* VertexShapesAt without the test d <= radius: the bounding boxes that
\* contain (x, y)
VertexShapesAt_box_only(s, x, y) ==
    {v \in s.V :
        LET c == _get_vertex_pos(s, v)
            radius == _get_radius(s, v)
        IN  /\ Abs(x - c[1]) < radius
            /\ Abs(y - c[2]) < radius}

\* The vertices whose shape contains (x, y)
VertexShapesAt(s, x, y) ==
    {v \in s.V :
        LET c == _get_vertex_pos(s, v)
            radius == _get_radius(s, v)
        IN  /\ Abs(x - c[1]) < radius
            /\ Abs(y - c[2]) < radius
            /\ SqDist(s, v, x, y) <= radius * radius
            /\ SqDist(s, v, x, y)
                   < s.drawing_parameters.width * s.drawing_parameters.width}

\* The values _get_vertex_at(x, y) can return: the shape whose center is
\* the closest; among equally close centers the first one of the graph's
\* vertex iteration, which the editor does not control.
_get_vertex_at(s, x, y) ==
    LET hit == VertexShapesAt(s, x, y)
    IN  IF hit = {} THEN {None}
        ELSE {v \in hit :
                 \A w \in hit : SqDist(s, v, x, y) <= SqDist(s, w, x, y)}

\* pu - pv and p - pv on the canvas, for the edge e = (u, v)
EdgeVec(s, e) ==
    LET pu == _get_vertex_pos(s, e[1])
        pv == _get_vertex_pos(s, e[2])
    IN  <<pu[1] - pv[1], pu[2] - pv[2]>>

sqnorm(a, b) ==
    (a[1] - b[1]) * (a[1] - b[1]) + (a[2] - b[2]) * (a[2] - b[2])

EdgeSqLen(s, e) == sqnorm(_get_vertex_pos(s, e[2]), _get_vertex_pos(s, e[1]))

Min2(a, b) == IF a < b THEN a ELSE b
Max2(a, b) == IF a < b THEN b ELSE a

\* The edges that pass the bounding-box test of _get_edge_at
EdgeBoxAt(s, x, y) ==
    {e \in s.E :
        LET pu == _get_vertex_pos(s, e[1])
            pv == _get_vertex_pos(s, e[2])
        IN  ~ \/ x < Min2(pv[1], pu[1]) - EdgeSlack
              \/ x > Max2(pv[1], pu[1]) + EdgeSlack
              \/ y < Min2(pv[2], pu[2]) - EdgeSlack
              \/ y > Max2(pv[2], pu[2]) + EdgeSlack}

\* The cross product of p - pv and pu - pv
EdgeCross(s, e, x, y) ==
    LET pv == _get_vertex_pos(s, e[2])
        w == EdgeVec(s, e)
    IN  (x - pv[1]) * w[2] - (y - pv[2]) * w[1]

\* d = sqnorm(proj, p) with proj = pv + t * (pu - pv) and
\* t = (p - pv).(pu - pv) / sqnorm(pv, pu).  Sage computes it exactly over
\* QQ; the same rational is written here in the equal form
\* ((p - pv) x (pu - pv))^2 / sqnorm(pv, pu), whose intermediate values stay
\* small.
EdgeProjDist(s, e, x, y) ==
    Rat(EdgeCross(s, e, x, y) * EdgeCross(s, e, x, y), EdgeSqLen(s, e))

\* d < min_dist for the initial min_dist; a cross product of 46341 or more
\* has a square above min_dist * sqnorm(pv, pu) for every edge on the canvas
EdgeIsNear(s, e, x, y) ==
    /\ Abs(EdgeCross(s, e, x, y)) < 46341
    /\ RLess(EdgeProjDist(s, e, x, y), RInt(EdgeMinDist))

\* n1 / d1 < n2 / d2 for non-negative rationals, by their continued
\* fractions (no product is formed)
RECURSIVE FracLess(_, _, _, _)
FracLess(n1, d1, n2, d2) ==
    IF n1 \div d1 # n2 \div d2 THEN n1 \div d1 < n2 \div d2
    ELSE IF n2 % d2 = 0 THEN FALSE
    ELSE IF n1 % d1 = 0 THEN TRUE
    ELSE FracLess(d2, n2 % d2, d1, n1 % d1)

\* _get_edge_at divides by sqnorm(pv, pu)
_get_edge_at_ok(s, x, y) ==
    /\ _get_vertices_pos_ok(s)
    /\ \A e \in EdgeBoxAt(s, x, y) : EdgeSqLen(s, e) # 0

\* The values _get_edge_at(x, y) can return (None coded as NoAttr)
_get_edge_at(s, x, y) ==
    LET near == {e \in EdgeBoxAt(s, x, y) : EdgeIsNear(s, e, x, y)}
        d(e) == EdgeProjDist(s, e, x, y)
    IN  IF near = {} THEN {NoAttr}
        ELSE {e \in near :
                 \A f \in near : ~FracLess(d(f)[1], d(f)[2],
                                           d(e)[1], d(e)[2])}

(***************************************************************************)
(* The graph collaborator (sage.graphs.graph.Graph / DiGraph)              *)
(***************************************************************************)
\* The pair under which the graph stores the edge between u and v
EdgeKey(s, u, v) == IF s.directed \/ u < v THEN <<u, v>> ELSE <<v, u>>

has_edge(s, u, v) == EdgeKey(s, u, v) \in s.E

\* Graph.add_vertex(): the smallest non-negative integer not in the graph
NewVertexName(s) ==
    CHOOSE n \in 0 .. Cardinality(s.V) :
        n \notin s.V /\ \A m \in 0 .. (n - 1) : m \in s.V

\* Graph.add_edge: adds the missing endpoints; a loop is silently dropped
graph_add_edge(s, u, v) ==
    [s EXCEPT !.V = @ \cup {u, v},
              !.E = IF u = v THEN @ ELSE @ \cup {EdgeKey(s, u, v)},
              !.loop_asked = @ \/ u = v]

\* Graph.delete_vertex: raises on a vertex not in the graph; removes the
\* incident edges and the vertex's position
graph_delete_vertex(s, v) ==
    IF v \notin s.V THEN Raise(s)
    ELSE [s EXCEPT !.V = @ \ {v},
                   !.E = {e \in @ : e[1] # v /\ e[2] # v},
                   !.pos = DictDel(@, v)]

graph_delete_edge(s, e) == [s EXCEPT !.E = @ \ {EdgeKey(s, e[1], e[2])}]

Neighbors(s, v) ==
    {u \in s.V : <<u, v>> \in s.E \/ <<v, u>> \in s.E}

IncidentEdges(s, v) == {e \in s.E : e[1] = v \/ e[2] = v}

(***************************************************************************)
(* Drawing methods: the condition under which each returns normally        *)
(***************************************************************************)
\* get_edge_color((u, v)) finds a key
get_edge_color_ok(s, u, v) ==
    \/ <<u, v>> \in DOMAIN s.edge_colors
    \/ ~s.directed /\ <<v, u>> \in DOMAIN s.edge_colors

\* What get_edge_color((u, v)) gives when it raises
KeyError == "KeyError"

\* get_edge_color((u, v)): edge_colors[(u, v)], or on an undirected graph
\* edge_colors[(v, u)] when (u, v) is not a key
get_edge_color(s, u, v) ==
    IF <<u, v>> \in DOMAIN s.edge_colors THEN s.edge_colors[<<u, v>>]
    ELSE IF ~s.directed /\ <<v, u>> \in DOMAIN s.edge_colors
         THEN s.edge_colors[<<v, u>>]
         ELSE KeyError

\* _draw_vertex(v): self.colors[v] and self.graph.get_pos()[v]
_draw_vertex_ok(s, v) == v \in DOMAIN s.colors /\ v \in DOMAIN s.pos

\* _draw_edge((u, v, label)): positions of both ends, then the colour
_draw_edge_ok(s, e) ==
    /\ e[1] \in DOMAIN s.pos
    /\ e[2] \in DOMAIN s.pos
    /\ get_edge_color_ok(s, e[1], e[2])

\* _draw_neighbors(v): graph.edge_iterator(v) needs v in the graph
_draw_neighbors_ok(s, v) ==
    /\ v \in s.V
    /\ \A e \in IncidentEdges(s, v) : _draw_edge_ok(s, e)
    /\ \A u \in Neighbors(s, v) : _draw_vertex_ok(s, u)

_draw_graph_ok(s) ==
    /\ \A e \in s.E : _draw_edge_ok(s, e)
    /\ \A v \in s.V : _draw_vertex_ok(s, v)
    /\ \A v \in s.selected_vertices : _draw_vertex_ok(s, v)

\* refresh() with no vertex
refresh(s) ==
    IF s.exc THEN s ELSE IF _draw_graph_ok(s) THEN s ELSE Raise(s)

_draw_graph(s) == refresh(s)

\* The canvas commands issued by a redraw: the operation and the vertex or
\* edge it paints
Command(op, v, e) == [op |-> op, v |-> v, e |-> e]

\* graph.vertex_iterator(), and the iteration of a set of vertices, in
\* increasing order
RECURSIVE vertex_iterator(_)
vertex_iterator(V) ==
    IF V = {} THEN <<>>
    ELSE LET v == CHOOSE x \in V : \A y \in V : x <= y
         IN  <<v>> \o vertex_iterator(V \ {v})

\* graph.edge_iterator(), in lexicographic order
RECURSIVE edge_iterator(_)
edge_iterator(E) ==
    IF E = {} THEN <<>>
    ELSE LET e == CHOOSE x \in E : \A y \in E :
                      x[1] < y[1] \/ (x[1] = y[1] /\ x[2] <= y[2])
         IN  <<e>> \o edge_iterator(E \ {e})

\* The commands of _draw_vertex(v, highlight=highlight): the inside, the
\* border, the name when the name toggle is on, and the focus when
\* highlight is set and v is selected
_draw_vertex_commands(s, v, highlight, names) ==
    <<Command("fill_arc", v, NoAttr), Command("stroke_arc", v, NoAttr)>>
        \o (IF names THEN <<Command("fill_text", v, NoAttr)>> ELSE <<>>)
        \o (IF highlight /\ v \in s.selected_vertices
            THEN <<Command("focus", v, NoAttr)>> ELSE <<>>)

\* The commands of _draw_edge(e) with endpoints=False: the line, and the
\* arrow tip on a directed graph when the shapes of the ends do not overlap
_draw_edge_commands(s, e) ==
    LET pos_u == _get_vertex_pos(s, e[1])
        pos_v == _get_vertex_pos(s, e[2])
        dist_min == _get_radius(s, e[2]) + _get_radius(s, e[1])
    IN  <<Command("stroke", None, e)>>
            \o (IF s.directed /\ (\/ Abs(pos_u[1] - pos_v[1]) > dist_min
                                  \/ Abs(pos_u[2] - pos_v[2]) > dist_min)
                THEN <<Command("draw_arrow", None, e)>> ELSE <<>>)

\* The concatenation of the sequences f[i] for i in the sequence order
RECURSIVE Chain(_, _)
Chain(order, f) ==
    IF order = <<>> THEN <<>>
    ELSE f[Head(order)] \o Chain(Tail(order), f)

\* The commands of a _draw_graph() that completes, names being the value of
\* the vertex name toggle: clear, every edge, every vertex with
\* highlight=False, every selected vertex with highlight=True
_draw_graph_commands(s, names) ==
    <<Command("clear", None, NoAttr)>>
        \o Chain(edge_iterator(s.E),
                 [e \in s.E |-> _draw_edge_commands(s, e)])
        \o Chain(vertex_iterator(s.V),
                 [v \in s.V |-> _draw_vertex_commands(s, v, FALSE, names)])
        \o Chain(vertex_iterator(s.selected_vertices),
                 [v \in s.selected_vertices |->
                      _draw_vertex_commands(s, v, TRUE, names)])

(***************************************************************************)
(* Setters and graph modification                                          *)
(***************************************************************************)
\* pos[v] = self._transform_matrix.inverse() * (x, y, 1)
_set_vertex_pos(s, v, x, y) ==
    IF s.exc THEN s
    ELSE IF s.tm.a[1] = 0 \/ s.tm.d[1] = 0 THEN Raise(s)
    ELSE [s EXCEPT !.pos = DictSet(@, v,
                      <<RDiv(RSub(RInt(x), s.tm.tx), s.tm.a),
                        RDiv(RSub(RInt(y), s.tm.ty), s.tm.d)>>)]

\* set_vertex_color(v, color): the value of the colour picker when color is
\* None
set_vertex_color(s, v, color) ==
    IF s.exc THEN s
    ELSE [s EXCEPT !.colors =
              DictSet(@, v, IF color = NoColor THEN ColorSelectorValue
                            ELSE color)]

\* set_vertex_radius(v) with radius=None
set_vertex_radius(s, v) ==
    IF s.exc THEN s
    ELSE [s EXCEPT !.vertex_radii = DictSet(@, v, s.vertex_radius_box)]

\* set_edge_color((u, v), color); color=None is NoColor
set_edge_color(s, u, v, color) ==
    LET c == IF color = NoColor THEN s.drawing_parameters.default_edge_color
             ELSE color
    IN  IF s.exc THEN s
        ELSE IF ~has_edge(s, u, v) THEN Raise(s)
        ELSE IF <<u, v>> \in DOMAIN s.edge_colors
             THEN [s EXCEPT !.edge_colors = DictSet(@, <<u, v>>, c)]
             ELSE [s EXCEPT !.edge_colors = DictSet(@, <<v, u>>, c)]

\* add_vertex_at(x, y, name=name, color=color): graph.add_vertex() picks the
\* name NewVertexName(s) when name is None
add_vertex_at(s, x, y, name, color) ==
    IF s.exc THEN s
    ELSE LET n == IF name = None THEN NewVertexName(s) ELSE name
             s1 == [s EXCEPT !.V = @ \cup {n}]
             s2 == _set_vertex_pos(s1, n, x, y)
             s3 == set_vertex_color(s2, n, color)
             s4 == set_vertex_radius(s3, n)
         IN  IF s4.exc \/ _draw_vertex_ok(s4, n) THEN s4 ELSE Raise(s4)

\* What add_vertex_at(x, y, name=name) returns: the generated name when
\* name is None, and None otherwise
add_vertex_at_returns(s, name) ==
    IF name = None THEN NewVertexName(s) ELSE None

\* add_edge(u, v, color=color): graph.add_edge, set_edge_color, then the
\* drawing
add_edge(s, u, v, color) ==
    IF s.exc THEN s
    ELSE LET s1 == graph_add_edge(s, u, v)
             s2 == set_edge_color(s1, u, v, color)
         IN  IF s2.exc THEN s2
             ELSE IF /\ _draw_edge_ok(s2, <<u, v>>)
                     /\ _draw_vertex_ok(s2, u)
                     /\ _draw_vertex_ok(s2, v)
                  THEN s2 ELSE Raise(s2)

\* _select_vertex() with vertex=None: empty the selection
_select_vertex_none(s, redraw) ==
    IF s.exc THEN s
    ELSE LET s1 == [s EXCEPT !.selected_vertices = {}]
         IN  IF redraw THEN refresh(s1) ELSE s1

\* _select_vertex(vertex) leaving the radius box as it is
_select_vertex_keep_box(s, vertex, redraw) ==
    IF s.exc THEN s
    ELSE LET s1 == [s EXCEPT
                      !.selected_vertices =
                          IF vertex \in @ THEN @ \ {vertex}
                          ELSE @ \cup {vertex}]
         IN  IF redraw /\ ~_draw_vertex_ok(s1, vertex) THEN Raise(s1) ELSE s1

\* _select_vertex(vertex): flip the vertex, copy its radius to the box
_select_vertex(s, vertex, redraw) ==
    IF s.exc THEN s
    ELSE LET s1 == [s EXCEPT
                      !.selected_vertices =
                          IF vertex \in @ THEN @ \ {vertex}
                          ELSE @ \cup {vertex},
                      !.vertex_radius_box = _get_radius(s, vertex)]
         IN  IF redraw /\ ~_draw_vertex_ok(s1, vertex) THEN Raise(s1) ELSE s1

\* _clean_tools without 'current_star_leaf' in attrs
_clean_tools_keeps_star_leaf(s) ==
    [s EXCEPT !.current_clique = NoAttr,
              !.current_walk_vertex = None,
              !.current_star_center = None]

_clean_tools(s) ==
    [s EXCEPT !.current_clique = NoAttr,
              !.current_walk_vertex = None,
              !.current_star_center = None,
              !.current_star_leaf = None]

(***************************************************************************)
(* The tools                                                               *)
(***************************************************************************)
\* mouse_action_select_move never removing an edge from selected_edges
mouse_action_select_move_add_only(s, on_vertex, closest_edge, pixel_x, pixel_y) ==
    IF on_vertex # None
    THEN [s EXCEPT !.dragged_vertex = on_vertex]
    ELSE IF closest_edge # NoAttr
    THEN [s EXCEPT !.selected_edges = @ \cup {closest_edge}]
    ELSE [s EXCEPT !.dragging_canvas_from = <<pixel_x, pixel_y>>]

mouse_action_select_move(s, on_vertex, closest_edge, pixel_x, pixel_y) ==
    IF on_vertex # None
    THEN LET s1 == [s EXCEPT !.dragged_vertex = on_vertex]
         IN  IF /\ _draw_neighbors_ok(s1, on_vertex)
                /\ _draw_vertex_ok(s1, on_vertex)
                /\ \A e \in s1.E \ IncidentEdges(s1, on_vertex) :
                       _draw_edge_ok(s1, e)
                /\ \A u \in s1.V \ {on_vertex} : _draw_vertex_ok(s1, u)
             THEN s1 ELSE Raise(s1)
    ELSE IF closest_edge # NoAttr
    THEN LET s1 == [s EXCEPT !.selected_edges =
                                 IF closest_edge \in @
                                 THEN @ \ {closest_edge}
                                 ELSE @ \cup {closest_edge}]
         IN  IF /\ _draw_edge_ok(s1, closest_edge)
                /\ _draw_vertex_ok(s1, closest_edge[1])
                /\ _draw_vertex_ok(s1, closest_edge[2])
             THEN s1 ELSE Raise(s1)
    ELSE [s EXCEPT !.dragging_canvas_from = <<pixel_x, pixel_y>>]

\* mouse_action_add_ve adding a vertex on every click on the background
mouse_action_add_ve_always_adds(s, on_vertex, pixel_x, pixel_y) ==
    IF on_vertex # None
    THEN IF Cardinality(s.selected_vertices) = 0
         THEN refresh(_select_vertex(s, on_vertex, TRUE))
         ELSE IF on_vertex \in s.selected_vertices
         THEN _select_vertex_none(s, TRUE)
         ELSE IF Cardinality(s.selected_vertices) > 1
         THEN Raise(s)
         ELSE LET only_selected_vertex ==
                      CHOOSE v \in s.selected_vertices : TRUE
              IN  refresh(_select_vertex_none(
                      add_edge(s, only_selected_vertex, on_vertex, NoColor), TRUE))
    ELSE refresh(add_vertex_at([s EXCEPT !.selected_vertices = {}],
                               pixel_x, pixel_y, None, NoColor))

mouse_action_add_ve(s, on_vertex, pixel_x, pixel_y) ==
    IF on_vertex # None
    THEN IF Cardinality(s.selected_vertices) = 0
         THEN refresh(_select_vertex(s, on_vertex, TRUE))
         ELSE IF on_vertex \in s.selected_vertices
         THEN _select_vertex_none(s, TRUE)
         ELSE IF Cardinality(s.selected_vertices) > 1
         THEN Raise(s)
         ELSE LET only_selected_vertex ==
                      CHOOSE v \in s.selected_vertices : TRUE
              IN  refresh(_select_vertex_none(
                      add_edge(s, only_selected_vertex, on_vertex, NoColor), TRUE))
    ELSE IF Cardinality(s.selected_vertices) # 0
         THEN refresh([s EXCEPT !.selected_vertices = {}])
         ELSE refresh(add_vertex_at(s, pixel_x, pixel_y, None, NoColor))

\* mouse_action_del_ve deleting the edge with its ends swapped
mouse_action_del_ve_swapped(s, on_vertex, on_edge) ==
    IF on_vertex # None THEN _draw_graph(graph_delete_vertex(s, on_vertex))
    ELSE IF on_edge # NoAttr
    THEN _draw_graph(graph_delete_edge(s, <<on_edge[2], on_edge[1]>>))
    ELSE s

mouse_action_del_ve(s, on_vertex, on_edge) ==
    IF on_vertex # None THEN _draw_graph(graph_delete_vertex(s, on_vertex))
    ELSE IF on_edge # NoAttr THEN _draw_graph(graph_delete_edge(s, on_edge))
    ELSE s

\* for u in self.current_clique[i ..]: self.add_edge(clicked_node, u)
RECURSIVE AddCliqueEdges(_, _, _)
AddCliqueEdges(s, clicked_node, i) ==
    IF s.exc \/ i > Len(s.current_clique) THEN s
    ELSE AddCliqueEdges(add_edge(s, clicked_node, s.current_clique[i], NoColor),
                        clicked_node, i + 1)

InSeq(x, q) == \E i \in 1 .. Len(q) : q[i] = x

mouse_action_add_clique(s, on_vertex, click_x, click_y) ==
    LET s0 == IF on_vertex = None THEN add_vertex_at(s, click_x, click_y, None, NoColor)
              ELSE s
        clicked_node == IF on_vertex = None THEN NewVertexName(s)
                        ELSE on_vertex
    IN  IF s0.exc THEN s0
        ELSE IF s0.current_clique = NoAttr
        THEN [s0 EXCEPT !.current_clique = <<clicked_node>>]
        ELSE IF InSeq(clicked_node, s0.current_clique)
        THEN [s0 EXCEPT !.current_clique = NoAttr]
        ELSE LET s1 == AddCliqueEdges(s0, clicked_node, 1)
             IN  IF s1.exc THEN s1
                 ELSE [s1 EXCEPT !.current_clique = Append(@, clicked_node)]

\* mouse_action_add_walk without the test on the current walk vertex that
\* ends the walk
mouse_action_add_walk_never_ends(s, on_vertex, click_x, click_y) ==
    LET s0 == IF on_vertex = None THEN add_vertex_at(s, click_x, click_y, None, NoColor)
              ELSE s
        clicked_node == IF on_vertex = None THEN NewVertexName(s)
                        ELSE on_vertex
    IN  IF s0.exc THEN s0
        ELSE IF s0.current_walk_vertex = None
        THEN _select_vertex([s0 EXCEPT !.current_walk_vertex = clicked_node],
                            clicked_node, TRUE)
        ELSE LET s1 == add_edge(s0, s0.current_walk_vertex, clicked_node, NoColor)
                 s2 == _select_vertex(s1, s0.current_walk_vertex, TRUE)
                 s3 == _select_vertex(s2, clicked_node, TRUE)
             IN  IF s3.exc THEN s3
                 ELSE [s3 EXCEPT !.current_walk_vertex = clicked_node]

mouse_action_add_walk(s, on_vertex, click_x, click_y) ==
    LET s0 == IF on_vertex = None THEN add_vertex_at(s, click_x, click_y, None, NoColor)
              ELSE s
        clicked_node == IF on_vertex = None THEN NewVertexName(s)
                        ELSE on_vertex
    IN  IF s0.exc THEN s0
        ELSE IF s0.current_walk_vertex = None
        THEN _select_vertex([s0 EXCEPT !.current_walk_vertex = clicked_node],
                            clicked_node, TRUE)
        ELSE IF clicked_node = s0.current_walk_vertex
        THEN _draw_graph(
                 _select_vertex([s0 EXCEPT !.current_walk_vertex = None],
                                clicked_node, FALSE))
        ELSE LET s1 == add_edge(s0, s0.current_walk_vertex, clicked_node, NoColor)
                 s2 == _select_vertex(s1, s0.current_walk_vertex, TRUE)
                 s3 == _select_vertex(s2, clicked_node, TRUE)
             IN  IF s3.exc THEN s3
                 ELSE [s3 EXCEPT !.current_walk_vertex = clicked_node]

\* mouse_action_add_star ending the gesture on the center only
mouse_action_add_star_center_only(s, on_vertex, click_x, click_y) ==
    LET s0 == IF on_vertex = None THEN add_vertex_at(s, click_x, click_y, None, NoColor)
              ELSE s
        clicked_node == IF on_vertex = None THEN NewVertexName(s)
                        ELSE on_vertex
    IN  IF s0.exc THEN s0
        ELSE IF s0.current_star_center = None
        THEN _select_vertex([s0 EXCEPT !.current_star_center = clicked_node,
                                       !.current_star_leaf = clicked_node],
                            clicked_node, TRUE)
        ELSE IF clicked_node = s0.current_star_center
        THEN _draw_graph(
                 _select_vertex_none([s0 EXCEPT !.current_star_center = None,
                                                !.current_star_leaf = None],
                                     FALSE))
        ELSE add_edge([s0 EXCEPT !.current_star_leaf = clicked_node],
                      s0.current_star_center, clicked_node, NoColor)

mouse_action_add_star(s, on_vertex, click_x, click_y) ==
    LET s0 == IF on_vertex = None THEN add_vertex_at(s, click_x, click_y, None, NoColor)
              ELSE s
        clicked_node == IF on_vertex = None THEN NewVertexName(s)
                        ELSE on_vertex
    IN  IF s0.exc THEN s0
        ELSE IF s0.current_star_center = None
        THEN _select_vertex([s0 EXCEPT !.current_star_center = clicked_node,
                                       !.current_star_leaf = clicked_node],
                            clicked_node, TRUE)
        ELSE IF \/ clicked_node = s0.current_star_center
                \/ clicked_node = s0.current_star_leaf
        THEN _draw_graph(
                 _select_vertex_none([s0 EXCEPT !.current_star_center = None,
                                                !.current_star_leaf = None],
                                     FALSE))
        ELSE add_edge([s0 EXCEPT !.current_star_leaf = clicked_node],
                      s0.current_star_center, clicked_node, NoColor)

(***************************************************************************)
(* Pointer handlers                                                        *)
(***************************************************************************)
\* The pairs <<clicked_node, closest_edge>> the two hit tests of
\* mouse_down_handler can produce; _get_edge_at is called only under
\* 'delete vertex or edge' and 'select / move', when no vertex is hit.
ClickTargets(s, x, y) ==
    IF ~_get_vertices_pos_ok(s) THEN {<<None, NoAttr>>}
    ELSE UNION {
           IF /\ c = None
              /\ s.tool \in {"delete vertex or edge", "select / move"}
              /\ _get_edge_at_ok(s, x, y)
           THEN {<<c, e>> : e \in _get_edge_at(s, x, y)}
           ELSE {<<c, NoAttr>>} : c \in _get_vertex_at(s, x, y)}

mouse_down_handler(s, click_x, click_y, clicked_node, closest_edge) ==
    LET s0 == [s EXCEPT !.initial_click_pos = <<click_x, click_y>>]
    IN  IF ~_get_vertices_pos_ok(s0) THEN Raise(s0)
        ELSE IF s0.tool = "add vertex or edge"
        THEN mouse_action_add_ve(s0, clicked_node, click_x, click_y)
        ELSE IF s0.tool = "add walk"
        THEN mouse_action_add_walk(s0, clicked_node, click_x, click_y)
        ELSE IF s0.tool = "add clique"
        THEN mouse_action_add_clique(s0, clicked_node, click_x, click_y)
        ELSE IF s0.tool = "add star"
        THEN mouse_action_add_star(s0, clicked_node, click_x, click_y)
        ELSE IF clicked_node = None /\ ~_get_edge_at_ok(s0, click_x, click_y)
        THEN Raise(s0)
        ELSE IF s0.tool = "delete vertex or edge"
        THEN mouse_action_del_ve(s0, clicked_node, closest_edge)
        ELSE mouse_action_select_move(s0, clicked_node, closest_edge,
                                      click_x, click_y)

_translate_layout(s, vec) ==
    [s EXCEPT !.tm.tx = RAdd(@, RInt(vec[1])),
              !.tm.ty = RAdd(@, RInt(vec[2]))]

mouse_move_handler(s, pixel_x, pixel_y) ==
    IF s.dragged_vertex # None
    THEN LET v == s.dragged_vertex
             s1 == _set_vertex_pos(s, v, pixel_x, pixel_y)
         IN  IF s1.exc \/ (_draw_neighbors_ok(s1, v) /\ _draw_vertex_ok(s1, v))
             THEN s1 ELSE Raise(s1)
    ELSE IF s.dragging_canvas_from # NoPoint
    THEN _draw_graph(
             [_translate_layout(s, <<pixel_x - s.dragging_canvas_from[1],
                                     pixel_y - s.dragging_canvas_from[2]>>)
                 EXCEPT !.dragging_canvas_from = <<pixel_x, pixel_y>>])
    ELSE s

\* The threshold test of mouse_up_handler comparing the y axis only
IsClick_y_only(s, pixel_x, pixel_y) ==
    Abs(pixel_y - s.initial_click_pos[2]) < ClickThreshold

IsClick(s, pixel_x, pixel_y) ==
    /\ Abs(pixel_x - s.initial_click_pos[1]) < ClickThreshold
    /\ Abs(pixel_y - s.initial_click_pos[2]) < ClickThreshold

mouse_up_handler(s, pixel_x, pixel_y) ==
    IF s.dragged_vertex # None
    THEN IF IsClick(s, pixel_x, pixel_y)
         THEN LET s1 == _select_vertex(s, s.dragged_vertex, FALSE)
              IN  IF /\ _draw_neighbors_ok(s1, s1.dragged_vertex)
                     /\ _draw_vertex_ok(s1, s1.dragged_vertex)
                  THEN [s1 EXCEPT !.dragged_vertex = None]
                  ELSE Raise(s1)
         ELSE LET s1 == _draw_graph(s)
              IN  IF s1.exc THEN s1 ELSE [s1 EXCEPT !.dragged_vertex = None]
    ELSE IF s.dragging_canvas_from # NoPoint
    THEN LET s1 == [s EXCEPT !.dragging_canvas_from = NoPoint]
         IN  IF IsClick(s1, pixel_x, pixel_y)
             THEN refresh([_select_vertex_none(s1, FALSE)
                               EXCEPT !.selected_edges = {}])
             ELSE s1
    ELSE s

(***************************************************************************)
(* Widget callbacks                                                        *)
(***************************************************************************)
\* tool_selector_callback without self.selected_edges.clear()
tool_selector_callback_keeps_edges(s, t) ==
    refresh(_select_vertex_none(_clean_tools([s EXCEPT !.tool = t]), FALSE))

\* The tool selector's value is t when the callback runs
tool_selector_callback(s, t) ==
    LET s1 == _select_vertex_none(_clean_tools([s EXCEPT !.tool = t]), FALSE)
    IN  refresh([s1 EXCEPT !.selected_edges = {}])

clear_drawing_button_callback(s) ==
    LET s1 == [s EXCEPT !.directed = FALSE, !.V = {}, !.E = {},
                        !.pos = EmptyDict]
    IN  _draw_graph(_select_vertex_none(s1, FALSE))

\* The value of vertex_radius_box is set to r by the user; no callback is
\* bound to the box
vertex_radius_box_set(s, r) == [s EXCEPT !.vertex_radius_box = r]

RECURSIVE SetRadii(_, _, _)
SetRadii(s, K, r) ==
    IF K = {} THEN s
    ELSE LET v == CHOOSE v \in K : TRUE
         IN  SetRadii([s EXCEPT !.vertex_radii = DictSet(@, v, r)],
                      K \ {v}, r)

radius_button_callback(s) ==
    refresh(SetRadii(s, s.selected_vertices, s.vertex_radius_box))

(***************************************************************************)
(* The layout selector.  The layout algorithms and the tests is_planar,    *)
(* is_forest belong to the graph collaborator: a layout is any assignment  *)
(* of LayoutPoints to the vertices, and graph.layout may raise where the   *)
(* collaborator is known to.                                               *)
(***************************************************************************)
\* graph.is_planar(), for graphs of at most five vertices: every graph but
\* the complete graph on five vertices
is_planar(s) ==
    ~\E K \in SUBSET s.V :
         /\ Cardinality(K) = 5
         /\ \A u \in K : \A v \in K \ {u} :
                <<u, v>> \in s.E \/ <<v, u>> \in s.E

\* graph.is_forest(): no set of vertices spans as many edges as it has
\* vertices
is_forest(s) ==
    \A K \in SUBSET s.V \ {{}} :
        Cardinality({e \in s.E : e[1] \in K /\ e[2] \in K}) < Cardinality(K)

\* graph.is_directed_acyclic(): no non-empty set of vertices in which every
\* vertex has an out-neighbour
is_directed_acyclic(s) ==
    ~\E K \in SUBSET s.V \ {{}} :
         \A v \in K : \E u \in K : <<v, u>> \in s.E

\* The positions a layout can give to the vertices of s
Layouts(s) ==
    {[v \in s.V |-> <<RInt(l[v][1]), RInt(l[v][2])>>] :
         l \in [s.V -> LayoutPoints]}

\* Whether graph.layout(layout=..., save_pos=True) can raise: layout_acyclic
\* falls back on layout_acyclic_dummy when dot2tex is missing, which raises
\* ValueError on a digraph with a directed cycle; the answer is a set since
\* it depends on the installation
graph_layout_raises(s, layout) ==
    IF layout = "acyclic" /\ ~is_directed_acyclic(s)
    THEN {TRUE, FALSE} ELSE {FALSE}

\* rnd_pos: integers between 0 and n * n
_random_layout(s, rnd_pos) ==
    IF s.exc THEN s
    ELSE [s EXCEPT !.pos = rnd_pos]

RMin(S) == CHOOSE x \in S : \A y \in S : ~RLess(y, x)
RMax(S) == CHOOSE x \in S : \A y \in S : ~RLess(x, y)

\* The float 0.1 is taken as the rational 1/10
_normalize_layout(s) ==
    IF s.exc \/ s.V = {} THEN s
    ELSE IF ~_get_vertices_pos_ok(s) THEN Raise(s)
    ELSE LET x_min == RMin({s.pos[v][1] : v \in s.V})
             x_max == RMax({s.pos[v][1] : v \in s.V})
             y_min == RMin({s.pos[v][2] : v \in s.V})
             y_max == RMax({s.pos[v][2] : v \in s.V})
             x_range == RMax({RSub(x_max, x_min), Rat(1, 10)})
             y_range == RMax({RSub(y_max, y_min), Rat(1, 10)})
             margin == RMax({RInt(_get_radius(s, v)) : v \in s.V})[1]
                           + LayoutMargin
             target_width == RInt(s.drawing_parameters.width - 2 * margin)
             target_height == RInt(s.drawing_parameters.height - 2 * margin)
             factor_x == RDiv(target_width, x_range)
             factor_y == RDiv(target_height, y_range)
             factor == RMin({factor_x, factor_y})
             x_shift == RAdd(RInt(margin),
                             RDiv(RSub(target_width, RMul(x_range, factor)),
                                  RInt(2)))
             y_shift == RAdd(RInt(margin),
                             RDiv(RSub(target_height, RMul(y_range, factor)),
                                  RInt(2)))
         IN  [s EXCEPT !.tm = [a |-> factor, d |-> factor,
                               tx |-> RSub(x_shift, RMul(factor, x_min)),
                               ty |-> RSub(y_shift, RMul(factor, y_min)),
                               rdf |-> TRUE]]

\* _scale_layout(ratio); the doubles 1.5 and 2/3 are the rationals 3/2 and
\* 2/3
_scale_layout(s, ratio) ==
    IF s.exc THEN s
    ELSE LET x_shift == RDiv(RMul(RInt(s.drawing_parameters.width),
                                  RSub(RInt(1), ratio)), RInt(2))
             y_shift == RDiv(RMul(RInt(s.drawing_parameters.height),
                                  RSub(RInt(1), ratio)), RInt(2))
         IN  [s EXCEPT !.tm = [a |-> RMul(ratio, @.a),
                               d |-> RMul(ratio, @.d),
                               tx |-> RAdd(RMul(ratio, @.tx), x_shift),
                               ty |-> RAdd(RMul(ratio, @.ty), y_shift),
                               rdf |-> TRUE]]

\* The on_click callbacks of the three zoom buttons
zoom_in_button_on_click(s) == _draw_graph(_scale_layout(s, Rat(3, 2)))

zoom_to_fit_button_on_click(s) == _draw_graph(_normalize_layout(s))

zoom_out_button_on_click(s) == _draw_graph(_scale_layout(s, Rat(2, 3)))

\* The request new_layout is one of the 'unreasonable demands' the callback
\* turns down itself
Unreasonable(s, new_layout) ==
    \/ new_layout = "planar" /\ ~is_planar(s)
    \/ new_layout = "acyclic" /\ ~s.directed
    \/ /\ new_layout \in {"forest (root up)", "forest (root down)"}
       /\ s.directed \/ ~is_forest(s)

\* layout_selector_callback(change) with change['name'] = 'value' and
\* change['new'] = new_layout; new_pos are the positions the layout (or
\* _random_layout) computes and raises tells whether graph.layout raises
layout_selector_callback(s, new_layout, new_pos, raises) ==
    LET s1 == _clean_tools(s)
    IN  IF Unreasonable(s1, new_layout) THEN s1
        ELSE LET s2 == IF new_layout = "random"
                       THEN _random_layout(s1, new_pos)
                       ELSE IF raises THEN Raise(s1)
                       ELSE [s1 EXCEPT !.pos = new_pos]
             IN  _draw_graph(_normalize_layout(s2))

\* self.text_output.value when layout_selector_callback returns or raises
layout_selector_text(s, new_layout, new_pos, raises) ==
    IF new_layout = "planar" /\ ~is_planar(s)
    THEN "'planar' layout impossible: the graph is not planar!"
    ELSE IF new_layout = "acyclic" /\ ~s.directed
    THEN "'directed acyclic' layout impossible: the graph is not directed!"
    ELSE IF new_layout \in {"forest (root up)", "forest (root down)"}
            /\ s.directed
    THEN "'forest' layout impossible: it is defined only for undirected graphs"
    ELSE IF new_layout \in {"forest (root up)", "forest (root down)"}
            /\ ~is_forest(s)
    THEN "'forest' layout impossible: the graph is not a forest!"
    ELSE IF layout_selector_callback(s, new_layout, new_pos, raises).exc
    THEN "Updating layout, please wait..."
    ELSE "Done updating layout."

(***************************************************************************)
(* The state machine                                                       *)
(***************************************************************************)
\* What the constructor call leaves when it raises before self.graph is
\* assigned: no editor
NoEditor ==
    [raised |-> "ValueError",
     message |-> "Cannot deal with graphs that allow loops or multiple edges"]

\* The constructor returned an editor
IsEditor(s) == "raised" \notin DOMAIN s

\* __init__ refusing only the graphs that allow loops
__init___loops_only(G, drawing_parameters, rnd_pos, rnd_colors) ==
    IF G.allows_loops THEN NoEditor
    ELSE LET s == [directed |-> G.directed, V |-> G.V, E |-> G.E,
                   pos |-> IF G.pos = NoAttr THEN rnd_pos ELSE G.pos,
                   tm |-> [a |-> RInt(1), d |-> RInt(-1),
                           tx |-> RInt(0), ty |-> RInt(0), rdf |-> FALSE],
                   selected_vertices |-> {}, selected_edges |-> {},
                   dragged_vertex |-> None,
                   dragging_canvas_from |-> NoPoint,
                   initial_click_pos |-> NoPoint,
                   tool |-> "select / move",
                   current_clique |-> NoAttr, current_walk_vertex |-> None,
                   current_star_center |-> None,
                   current_star_leaf |-> None,
                   vertex_radii |->
                       [v \in G.V |-> drawing_parameters.default_radius],
                   colors |->
                       IF drawing_parameters.default_vertex_color = NoColor
                       THEN rnd_colors
                       ELSE [v \in G.V |->
                                drawing_parameters.default_vertex_color],
                   edge_colors |-> [e \in G.E |-> InitialEdgeColor],
                   vertex_radius_box |-> drawing_parameters.default_radius,
                   drawing_parameters |-> drawing_parameters,
                   loop_asked |-> FALSE,
                   exc |-> FALSE]
         IN  _draw_graph(_normalize_layout(s))


\* SimpleGraphEditor(G, drawing_parameters).  G is a record: directed, V, E,
\* pos (NoAttr for None), allows_loops, allows_multiple_edges.  rnd_pos is
\* what _random_layout draws and rnd_colors what randrange draws, when
\* they are called.
__init__(G, drawing_parameters, rnd_pos, rnd_colors) ==
    IF G.allows_multiple_edges \/ G.allows_loops THEN NoEditor
    ELSE LET s == [directed |-> G.directed, V |-> G.V, E |-> G.E,
                   pos |-> IF G.pos = NoAttr THEN rnd_pos ELSE G.pos,
                   tm |-> [a |-> RInt(1), d |-> RInt(-1),
                           tx |-> RInt(0), ty |-> RInt(0), rdf |-> FALSE],
                   selected_vertices |-> {}, selected_edges |-> {},
                   dragged_vertex |-> None,
                   dragging_canvas_from |-> NoPoint,
                   initial_click_pos |-> NoPoint,
                   tool |-> "select / move",
                   current_clique |-> NoAttr, current_walk_vertex |-> None,
                   current_star_center |-> None,
                   current_star_leaf |-> None,
                   vertex_radii |->
                       [v \in G.V |-> drawing_parameters.default_radius],
                   colors |->
                       IF drawing_parameters.default_vertex_color = NoColor
                       THEN rnd_colors
                       ELSE [v \in G.V |->
                                drawing_parameters.default_vertex_color],
                   edge_colors |-> [e \in G.E |-> InitialEdgeColor],
                   vertex_radius_box |-> drawing_parameters.default_radius,
                   drawing_parameters |-> drawing_parameters,
                   loop_asked |-> FALSE,
                   exc |-> FALSE]
         IN  _draw_graph(_normalize_layout(s))

\* Graph(0) and DiGraph(0)
Graph0(dir) ==
    [directed |-> dir, V |-> {}, E |-> {}, pos |-> NoAttr,
     allows_loops |-> FALSE, allows_multiple_edges |-> FALSE]

\* The editor as __init__ leaves it on an empty graph, directed or not
SimpleGraphEditor(dir) ==
    __init__(Graph0(dir), DefaultParameters, EmptyDict, EmptyDict)

\* The editor built on an empty Graph or on an empty DiGraph
Init == (\E dir \in BOOLEAN : ed = SimpleGraphEditor(dir)) /\ OnlyEditor

\* The editor built with the default argument, Graph(0)
InitDefault == ed = SimpleGraphEditor(FALSE) /\ OnlyEditor

\* The pointer goes down at p, where the hit tests return c and e
MouseDownOn(p, c, e) ==
    /\ <<c, e>> \in ClickTargets(ed, p[1], p[2])
    /\ Becomes(mouse_down_handler(ed, p[1], p[2], c, e))

MouseMoveTo(p) == Becomes(mouse_move_handler(ed, p[1], p[2]))

\* on_mouse_up and on_mouse_out are both bound to mouse_up_handler
MouseUpAt(p) == Becomes(mouse_up_handler(ed, p[1], p[2]))

\* The tool selector's value changes to t
ToolSelect(t) ==
    /\ t # ed.tool
    /\ Becomes(tool_selector_callback(ed, t))

ClearDrawing == Becomes(clear_drawing_button_callback(ed))

\* The layout selector's value changes to new_layout; an exception of the
\* callback ends it and the editor goes on
LayoutSelect(new_layout) ==
    \E new_pos \in Layouts(ed) :
        \E raises \in graph_layout_raises(ed, new_layout) :
            Becomes(layout_selector_callback(ed, new_layout, new_pos,
                                             raises))

ZoomIn == Becomes(zoom_in_button_on_click(ed))

ZoomToFit == Becomes(zoom_to_fit_button_on_click(ed))

ZoomOut == Becomes(zoom_out_button_on_click(ed))

\* The user sets the radius box to r
RadiusBox(r) ==
    /\ r # ed.vertex_radius_box
    /\ ed' = vertex_radius_box_set(ed, r)
    /\ UNCHANGED <<other, tg>>

RadiusButton == Becomes(radius_button_callback(ed))

\* The events as explored: at the pixels P, towards the tools T, within
\* the bounds
Down(P, maxv, maxshift) ==
    /\ \E p \in P : \E t \in ClickTargets(ed, p[1], p[2]) :
           MouseDownOn(p, t[1], t[2])
    /\ Within(ed', maxv, maxshift)

Move(P, maxv, maxshift) ==
    /\ \E p \in P : MouseMoveTo(p)
    /\ Within(ed', maxv, maxshift)

Up(P) == \E p \in P : MouseUpAt(p)

Switch(T) == \E t \in T : ToolSelect(t)

(***************************************************************************)
(* Spec: the drawing tools.  Pointer-downs with the four adding tools and  *)
(* tool switches in any order, on graphs of up to MaxVertices vertices.    *)
(***************************************************************************)
AddingTools == {"add vertex or edge", "add walk", "add clique", "add star"}

ToolPixels == {<<100, 100>>, <<120, 102>>, <<200, 100>>}

MouseDown == Down(ToolPixels, MaxVertices, 0)

ToolSwitch == Switch(AddingTools)

Next ==
    \/ MouseDown
    \/ ToolSwitch

Spec == Init /\ [][Next]_vars

(***************************************************************************)
(* SpecPanel: pointer-downs and releases with each of the six tools, tool  *)
(* switches and the 'clear drawing' button in any order, on graphs of up   *)
(* to MaxPanelVertices vertices.                                           *)
(***************************************************************************)
PanelMouseDown == Down(ToolPixels, MaxPanelVertices, 0)

PanelToolSwitch == Switch(Tools)

PanelClearDrawing == ClearDrawing

PanelMouseUp == Up(ToolPixels)

NextPanel ==
    \/ PanelMouseDown
    \/ PanelMouseUp
    \/ PanelToolSwitch
    \/ PanelClearDrawing

SpecPanel == Init /\ [][NextPanel]_vars

(***************************************************************************)
(* SpecDrag: presses, moves and releases under 'select / move' and 'add    *)
(* vertex or edge', with tool switches at any moment, on graphs of up to   *)
(* MaxDragVertices vertices, in the editor built with the default graph.   *)
(***************************************************************************)
DragTools == {"select / move", "add vertex or edge"}

DragPixels == {<<100, 100>>, <<109, 109>>, <<120, 102>>}

DragMouseDown == Down(DragPixels, MaxDragVertices, MaxShift)

DragMouseMove == Move(DragPixels, MaxDragVertices, MaxShift)

DragMouseUp == Up(DragPixels)

DragToolSwitch == Switch(DragTools)

NextDrag ==
    \/ DragMouseDown
    \/ DragMouseMove
    \/ DragMouseUp
    \/ DragToolSwitch

SpecDrag == InitDefault /\ [][NextDrag]_vars

(***************************************************************************)
(* SpecLayout: the layout selector used at any moment between pointer-downs *)
(* with 'add walk' and 'select / move' and tool switches, on graphs of up   *)
(* to MaxLayoutVertices vertices.                                          *)
(***************************************************************************)
LayoutTools == {"select / move", "add walk"}

LayoutPixels == {<<100, 100>>, <<500, 100>>}

LayoutMouseDown == Down(LayoutPixels, MaxLayoutVertices, CanvasWidth)

LayoutToolSwitch == Switch(LayoutTools)

LayoutChange == \E l \in LayoutNames : LayoutSelect(l)

NextLayout ==
    \/ LayoutMouseDown
    \/ LayoutToolSwitch
    \/ LayoutChange

SpecLayout == Init /\ [][NextLayout]_vars

(***************************************************************************)
(* SpecView: the zoom-in and zoom-out buttons between pointer-downs under  *)
(* 'select / move' and 'add vertex or edge', on graphs of up to            *)
(* MaxViewVertices vertices, the scale of the view staying between         *)
(* (2/3)^MaxZoom and (3/2)^MaxZoom.                                        *)
(***************************************************************************)
ViewPixels == {<<100, 100>>, <<120, 102>>}

RECURSIVE Pow(_, _)
Pow(r, n) == IF n = 0 THEN RInt(1) ELSE RMul(r, Pow(r, n - 1))

\* The scale of the view of s is within the explored range
ZoomWithin(s) ==
    /\ ~RLess(<<Abs(s.tm.a[1]), s.tm.a[2]>>, Pow(Rat(2, 3), MaxZoom))
    /\ ~RLess(Pow(Rat(3, 2), MaxZoom), <<Abs(s.tm.a[1]), s.tm.a[2]>>)

ViewMouseDown == Down(ViewPixels, MaxViewVertices, MaxViewShift)

ViewToolSwitch == Switch(DragTools)

ViewZoomIn == ZoomIn /\ ZoomWithin(ed')

ViewZoomOut == ZoomOut /\ ZoomWithin(ed')

NextView ==
    \/ ViewMouseDown
    \/ ViewToolSwitch
    \/ ViewZoomIn
    \/ ViewZoomOut

SpecView == InitDefault /\ [][NextView]_vars

(***************************************************************************)
(* SpecFit: the zoom-to-fit button, the radius box and the radius button   *)
(* between pointer-downs under 'select / move' and 'add vertex or edge',   *)
(* on graphs of up to MaxFitVertices vertices, in editors built on the     *)
(* empty graph with the canvas sizes FitSizes.                             *)
(***************************************************************************)
\* Canvas sizes <<width, height>> given to the constructor: the default
\* one, and one as high as twice the largest radius plus the margin
FitSizes == {<<CanvasWidth, CanvasHeight>>,
             <<CanvasWidth, 2 * (RadiusMax + LayoutMargin)>>}

\* Values typed in the radius box
FitRadii == {DefaultRadius, RadiusMax}

InitFit ==
    /\ \E size \in FitSizes :
           ed = __init__(Graph0(FALSE),
                         [DefaultParameters EXCEPT !.width = size[1],
                                                   !.height = size[2]],
                         EmptyDict, EmptyDict)
    /\ OnlyEditor

FitMouseDown == Down(ViewPixels, MaxFitVertices, CanvasWidth)

FitToolSwitch == Switch(DragTools)

FitRadiusBox == \E r \in FitRadii : RadiusBox(r)

NextFit ==
    \/ FitMouseDown
    \/ FitToolSwitch
    \/ ZoomToFit
    \/ FitRadiusBox
    \/ RadiusButton

SpecFit == InitFit /\ [][NextFit]_vars

(***************************************************************************)
(* SpecConstruct: the constructor on graphs of up to two vertices, with or *)
(* without an edge and positions, allowing loops or multiple edges or not, *)
(* and on the values ConstructColors of default_edge_color; then           *)
(* pointer-downs under 'select / move' and 'add vertex or edge' and calls  *)
(* of add_edge and set_edge_color with a colour.                           *)
(***************************************************************************)
\* Colours given as default_edge_color and to add_edge and set_edge_color
ConstructColors == {"black", "red"}

\* The random colour of the vertices of the construction graph
RandomColor == "#0f1e2d"

\* The graphs given to the constructor
ConstructGraphs ==
    {[directed |-> dir, V |-> g[1], E |-> g[2], pos |-> pos,
      allows_loops |-> loops, allows_multiple_edges |-> multi] :
         dir \in BOOLEAN,
         g \in {<<{}, {}>>, <<{0, 1}, {}>>, <<{0, 1}, {<<0, 1>>}>>},
         pos \in {NoAttr},
         loops \in BOOLEAN, multi \in BOOLEAN}

\* The positions _random_layout can draw for the vertex set V
RandomLayouts(V) ==
    {[v \in V |-> <<RInt(v), RInt(0)>>], [v \in V |-> <<RInt(0), RInt(v)>>]}

InitConstruct ==
    /\ \E G \in ConstructGraphs : \E c \in ConstructColors :
           \E rnd_pos \in RandomLayouts(G.V) :
               ed = __init__(G, [DefaultParameters
                                     EXCEPT !.default_edge_color = c],
                             rnd_pos, [v \in G.V |-> RandomColor])
    /\ OnlyEditor

ConstructMouseDown ==
    IsEditor(ed) /\ Down(ViewPixels, MaxConstructVertices, CanvasWidth)

ConstructToolSwitch == IsEditor(ed) /\ Switch(DragTools)

\* A call of add_edge(u, v, color=c) on two vertices of the graph
AddEdge(u, v, c) == Becomes(add_edge(ed, u, v, c))

\* A call of set_edge_color((u, v), c)
SetEdgeColor(u, v, c) == Becomes(set_edge_color(ed, u, v, c))

ConstructAddEdge ==
    /\ IsEditor(ed)
    /\ \E u, v \in ed.V : \E c \in ConstructColors \cup {NoColor} :
           u # v /\ AddEdge(u, v, c)

ConstructSetEdgeColor ==
    /\ IsEditor(ed)
    /\ \E u, v \in ed.V : \E c \in ConstructColors \cup {NoColor} :
           SetEdgeColor(u, v, c)

NextConstruct ==
    \/ ConstructMouseDown
    \/ ConstructToolSwitch
    \/ ConstructAddEdge
    \/ ConstructSetEdgeColor

SpecConstruct == InitConstruct /\ [][NextConstruct]_vars

(***************************************************************************)
(* TalkyGraph (talky_graph.py): a sage Graph whose mutators call a notify  *)
(* callback.  tg holds the vertices V and edges E (pairs <<u, v>> with     *)
(* u < v) of the graph, which callback it was built with, the calls the    *)
(* given callback received (log), and the outcome of the running call:     *)
(* ret, what it returns, and raised, the exception it raised ("" for       *)
(* none).                                                                   *)
(***************************************************************************)
\* The undirected edge between u and v
Edge(u, v) == IF u < v THEN <<u, v>> ELSE <<v, u>>

\* The elements of the list l
Elements(l) == {l[i] : i \in DOMAIN l}

\* A call of the method name with the positional arguments args
Call(name, args) == [name |-> name, args |-> args]

\* Whether the method of sage's Graph raises (ValueError) on g:
\* delete_vertex and delete_vertices on a vertex that is not in the graph
Graph_raises(g, c) ==
    \/ c.name = "delete_vertex" /\ c.args[1] \notin g.V
    \/ c.name = "delete_vertices" /\ ~(Elements(c.args[1]) \subseteq g.V)

\* The name Graph.add_vertex() picks: the least integer not in the graph
Graph_new_name(g) ==
    CHOOSE n \in 0 .. Cardinality(g.V) :
        n \notin g.V /\ \A m \in 0 .. (n - 1) : m \in g.V

\* The graph after the method of sage's Graph
Graph_apply(g, c) ==
    IF c.name = "add_vertex"
    THEN [g EXCEPT !.V = @ \cup {IF c.args = <<>> THEN Graph_new_name(g)
                                 ELSE c.args[1]}]
    ELSE IF c.name = "delete_vertex"
    THEN [g EXCEPT !.V = @ \ {c.args[1]},
                   !.E = {e \in @ : c.args[1] \notin {e[1], e[2]}}]
    ELSE IF c.name = "add_vertices"
    THEN [g EXCEPT !.V = @ \cup Elements(c.args[1])]
    ELSE IF c.name = "delete_vertices"
    THEN [g EXCEPT !.V = @ \ Elements(c.args[1]),
                   !.E = {e \in @ : {e[1], e[2]} \cap Elements(c.args[1])
                                        = {}}]
    ELSE IF c.name = "add_edge"
    THEN [g EXCEPT !.V = @ \cup {c.args[1], c.args[2]},
                   !.E = @ \cup {Edge(c.args[1], c.args[2])}]
    ELSE IF c.name = "delete_edge"
    THEN [g EXCEPT !.E = @ \ {Edge(c.args[1], c.args[2])}]
    ELSE [g EXCEPT !.V = @ \cup UNION {{e[1], e[2]} :
                                          e \in Elements(c.args[1])},
                   !.E = @ \cup {Edge(e[1], e[2]) :
                                    e \in Elements(c.args[1])}]

\* What the method of sage's Graph returns: the new name for add_vertex(),
\* None otherwise
Graph_returns(g, c) ==
    IF c.name = "add_vertex" /\ c.args = <<>> THEN Graph_new_name(g)
    ELSE None

\* TalkyGraph(n, notify_callback=...): the callback given, or the default
\* lambda x: None; no notification is sent by the construction
TalkyGraph(n, callback) ==
    [built |-> TRUE, V |-> 0 .. (n - 1), E |-> {}, callback |-> callback,
     log |-> <<>>, ret |-> None, raised |-> ""]

\* self.notify_change(name, *args): the given callback records the call and
\* the graph it sees; the default lambda x: None takes exactly one
\* argument
notify_change(g, name, args) ==
    IF g.callback = "given"
    THEN [g EXCEPT !.log = Append(@, [name |-> name, args |-> args,
                                      V |-> g.V, E |-> g.E])]
    ELSE IF args = <<>> THEN g
    ELSE [g EXCEPT !.raised = "TypeError"]

\* r = Graph.<method>(self, *args); self.notify_change(notified, *args);
\* return r
Mutator(g, c, notified) ==
    IF Graph_raises(g, c) THEN [g EXCEPT !.raised = "ValueError"]
    ELSE LET g1 == notify_change(Graph_apply(g, c), notified, c.args)
         IN  IF g1.raised # "" THEN g1
             ELSE [g1 EXCEPT !.ret = Graph_returns(g, c)]

TalkyGraph_add_vertex(g, args) ==
    Mutator(g, Call("add_vertex", args), "add_vertex")

TalkyGraph_delete_vertex(g, args) ==
    Mutator(g, Call("delete_vertex", args), "delete_vertex")

TalkyGraph_add_vertices(g, args) ==
    Mutator(g, Call("add_vertices", args), "add_vertices")

TalkyGraph_delete_vertices(g, args) ==
    Mutator(g, Call("delete_vertices", args), "delete_vertices")

TalkyGraph_add_edge(g, args) ==
    Mutator(g, Call("add_edge", args), "add_edge")

TalkyGraph_delete_edge(g, args) ==
    Mutator(g, Call("delete_edge", args), "delete_edge")

TalkyGraph_add_edges(g, args) ==
    Mutator(g, Call("add_edges", args), "add_vertices")

\* The method of TalkyGraph that the call c runs
TalkyGraph_method(g, c) ==
    IF c.name = "add_vertex" THEN TalkyGraph_add_vertex(g, c.args)
    ELSE IF c.name = "delete_vertex" THEN TalkyGraph_delete_vertex(g, c.args)
    ELSE IF c.name = "add_vertices" THEN TalkyGraph_add_vertices(g, c.args)
    ELSE IF c.name = "delete_vertices"
    THEN TalkyGraph_delete_vertices(g, c.args)
    ELSE IF c.name = "add_edge" THEN TalkyGraph_add_edge(g, c.args)
    ELSE IF c.name = "delete_edge" THEN TalkyGraph_delete_edge(g, c.args)
    ELSE TalkyGraph_add_edges(g, c.args)

(***************************************************************************)
(* SpecTalky: a TalkyGraph built on 0 or MaxTalkyVertices vertices, with a *)
(* callback or without, then any of its mutators on vertices below         *)
(* MaxTalkyVertices, the callback receiving at most MaxNotifications       *)
(* calls.                                                                   *)
(***************************************************************************)
TalkyVertices == 0 .. (MaxTalkyVertices - 1)

\* The lists of vertices and of edges given to add_vertices,
\* delete_vertices and add_edges
VertexLists == {<<0>>, <<0, 1>>}

EdgeLists == {<<<<0, 1>>>>, <<<<1, 0>>, <<0, 2>>>>}

\* The calls of each mutator
Calls(name) ==
    IF name = "add_vertex"
    THEN {Call(name, <<>>)} \cup {Call(name, <<v>>) : v \in TalkyVertices}
    ELSE IF name = "delete_vertex"
    THEN {Call(name, <<v>>) : v \in TalkyVertices}
    ELSE IF name \in {"add_vertices", "delete_vertices"}
    THEN {Call(name, <<l>>) : l \in VertexLists}
    ELSE IF name \in {"add_edge", "delete_edge"}
    THEN {Call(name, <<u, v>>) : u, v \in TalkyVertices}
    ELSE {Call(name, <<l>>) : l \in EdgeLists}

Mutators == {"add_vertex", "delete_vertex", "add_vertices",
             "delete_vertices", "add_edge", "delete_edge", "add_edges"}

AllCalls == UNION {Calls(name) : name \in Mutators}

\* The call has returned or raised: the program goes on with the graph
Returned(g) == [g EXCEPT !.ret = None, !.raised = ""]

InitTalky ==
    /\ \E n \in {0, MaxTalkyVertices} : \E callback \in {"given", "default"} :
           tg = TalkyGraph(n, callback)
    /\ ed = NoObject /\ other = NoObject

\* The program calls the mutator name of the graph
TalkyCall(name) ==
    /\ \E c \in Calls(name) :
           /\ c.name \in {"add_edge", "delete_edge"} => c.args[1] # c.args[2]
           /\ tg' = Returned(TalkyGraph_method(tg, c))
    /\ Len(tg'.log) <= MaxNotifications
    /\ Cardinality(tg'.V) <= MaxTalkyVertices
    /\ UNCHANGED <<ed, other>>

AddVertex == TalkyCall("add_vertex")

DeleteVertex == TalkyCall("delete_vertex")

AddVertices == TalkyCall("add_vertices")

DeleteVertices == TalkyCall("delete_vertices")

TalkyAddEdge == TalkyCall("add_edge")

DeleteEdge == TalkyCall("delete_edge")

AddEdges == TalkyCall("add_edges")

NextTalky ==
    \/ AddVertex
    \/ DeleteVertex
    \/ AddVertices
    \/ DeleteVertices
    \/ TalkyAddEdge
    \/ DeleteEdge
    \/ AddEdges

SpecTalky == InitTalky /\ [][NextTalky]_vars

(***************************************************************************)
(* SpecShared: two editors, each built by SimpleGraphEditor().  The        *)
(* default value of the parameter G, Graph(0), is evaluated once, when the *)
(* def statement runs, and __init__ stores it with self.graph = G: both    *)
(* editors hold the same Graph object, and with it the same vertices,      *)
(* edges and positions (Graph.get_pos()).  Everything else is kept in the  *)
(* attributes of each editor.  Pointer-downs in either editor, the first  *)
(* one switched to 'delete vertex or edge' and the second one to 'add      *)
(* vertex or edge' at any moment, on graphs of up to MaxSharedVertices     *)
(* vertices.                                                               *)
(***************************************************************************)
\* The editor o, whose self.graph is the object that the editor s has just
\* worked on
SharedGraph(o, s) == [o EXCEPT !.V = s.V, !.E = s.E, !.pos = s.pos]

\* What self.graph holds: vertices, edges, positions
GraphOf(s) == [V |-> s.V, E |-> s.E, pos |-> s.pos]

InitShared ==
    /\ ed = SimpleGraphEditor(FALSE)
    /\ other = SimpleGraphEditor(FALSE)
    /\ tg = NoObject

\* A handler of the first editor ends in s
FirstBecomes(s) ==
    /\ ed' = Captured(s)
    /\ other' = SharedGraph(other, ed')
    /\ UNCHANGED tg

\* A handler of the second editor ends in s
SecondBecomes(s) ==
    /\ other' = Captured(s)
    /\ ed' = SharedGraph(ed, other')
    /\ UNCHANGED tg

SharedPixels == {<<100, 100>>, <<200, 100>>}

FirstMouseDown ==
    /\ \E p \in SharedPixels : \E t \in ClickTargets(ed, p[1], p[2]) :
           FirstBecomes(mouse_down_handler(ed, p[1], p[2], t[1], t[2]))
    /\ Cardinality(ed'.V) <= MaxSharedVertices

SecondMouseDown ==
    /\ \E p \in SharedPixels : \E t \in ClickTargets(other, p[1], p[2]) :
           SecondBecomes(mouse_down_handler(other, p[1], p[2], t[1], t[2]))
    /\ Cardinality(other'.V) <= MaxSharedVertices

FirstToolSwitch ==
    \E t \in {"delete vertex or edge"} :
        /\ t # ed.tool
        /\ FirstBecomes(tool_selector_callback(ed, t))

SecondToolSwitch ==
    \E t \in {"add vertex or edge"} :
        /\ t # other.tool
        /\ SecondBecomes(tool_selector_callback(other, t))

NextShared ==
    \/ FirstMouseDown
    \/ SecondMouseDown
    \/ FirstToolSwitch
    \/ SecondToolSwitch

SpecShared == InitShared /\ [][NextShared]_vars

(***************************************************************************)
(* Properties                                                              *)
(***************************************************************************)
NoGesture(s) ==
    /\ s.current_clique = NoAttr
    /\ s.current_walk_vertex = None
    /\ s.current_star_center = None
    /\ s.current_star_leaf = None

Cleared(s) ==
    /\ s.selected_vertices = {}
    /\ s.selected_edges = {}
    /\ NoGesture(s)

\* The vertices a pointer-down at p can be resolved to (None: no vertex)
Hits(s, p) == {t[1] : t \in ClickTargets(s, p[1], p[2])}

\* The state after a pointer-down at p resolved to the vertex c (or None)
AfterDown(s, p, c) == Captured(mouse_down_handler(s, p[1], p[2], c, NoAttr))

\* The vertex a drawing tool works with after a pointer-down resolved to c
Clicked(s, c) == IF c = None THEN NewVertexName(s) ELSE c

\* C1: the tool-selector callback, from any reachable state and towards any
\* other tool, leaves both selections empty and no gesture attribute; a
\* second switch right after it (A -> B -> A included) leaves them the same.
C1_ToolSwitchClears ==
    \A t1 \in Tools \ {ed.tool} :
        LET s1 == Captured(tool_selector_callback(ed, t1))
        IN  /\ s1.tool = t1
            /\ Cleared(s1)
            /\ \A t2 \in Tools \ {t1} :
                   Cleared(Captured(tool_selector_callback(s1, t2)))

\* A tool switch from a state with vertices and edges selected
C1_Witness ==
    /\ ed.selected_vertices # {}
    /\ ed.selected_edges # {}
    /\ Cleared(Captured(tool_selector_callback(ed, "add walk")))

\* C2: 'clear drawing', from any reachable state, leaves no gesture
\* attribute (current_clique, current_walk_vertex, current_star_center,
\* current_star_leaf).
C2_ClearDrawingResetsGestures ==
    NoGesture(Captured(clear_drawing_button_callback(ed)))

\* C3: whenever the tool is 'add vertex or edge', at most one vertex is
\* selected.
C3_AtMostOneSelected ==
    ed.tool = "add vertex or edge" => Cardinality(ed.selected_vertices) <= 1

\* The pixels of Pixels covered by no vertex shape
EmptySpots(s) == {p \in Pixels : _get_vertex_at(s, p[1], p[2]) = {None}}

\* From s0 to s exactly one vertex was created, at the pixel p, and no edge
CreatedAt(s0, s, p) ==
    LET name == NewVertexName(s0)
    IN  /\ s.V = s0.V \cup {name}
        /\ Cardinality(s.V) = Cardinality(s0.V) + 1
        /\ s.E = s0.E
        /\ name \in DOMAIN s.pos
        /\ _get_vertex_pos(s, name) = p
        /\ \A v \in s0.V : s.pos[v] = s0.pos[v]

\* C4 as stated: under 'add vertex or edge', a pointer-down at a point
\* covered by no vertex shape creates exactly one vertex at that point,
\* whatever the selection is.
C4_EmptyCanvasAlwaysCreates ==
    ed.tool = "add vertex or edge" =>
        \A p \in EmptySpots(ed) : CreatedAt(ed, AfterDown(ed, p, None), p)

\* C4 as amended: under 'add vertex or edge', a pointer-down at a point
\* covered by no vertex shape creates exactly one vertex at that point when
\* no vertex is selected; when a vertex is selected it only empties the
\* selection and leaves the graph and the positions as they are.
C4_EmptyCanvasCreatesUnlessSelected ==
    ed.tool = "add vertex or edge" =>
        \A p \in EmptySpots(ed) :
            LET s == AfterDown(ed, p, None)
            IN  IF ed.selected_vertices = {}
                THEN CreatedAt(ed, s, p) /\ s.selected_vertices = {}
                ELSE /\ s.selected_vertices = {}
                     /\ s.V = ed.V /\ s.E = ed.E /\ s.pos = ed.pos

\* A click on empty canvas while a vertex is selected, which unselects it
C4_Witness ==
    /\ ed.tool = "add vertex or edge"
    /\ ed.selected_vertices # {}
    /\ <<200, 100>> \in EmptySpots(ed)
    /\ AfterDown(ed, <<200, 100>>, None).selected_vertices = {}
    /\ AfterDown(ed, <<200, 100>>, None).V = ed.V

\* C5: under 'add vertex or edge', a pointer-down on a vertex v selects v
\* when nothing is selected, unselects v and adds nothing when v is the
\* selected vertex, and when exactly one other vertex u is selected adds
\* exactly the edge (u, v) and leaves the selection empty.
C5_SelectUnselectLink ==
    ed.tool = "add vertex or edge" =>
        \A p \in Pixels : \A v \in Hits(ed, p) \ {None} :
            LET s == AfterDown(ed, p, v)
                sel == ed.selected_vertices
            IN  /\ sel = {} =>
                       s.selected_vertices = {v} /\ s.V = ed.V /\ s.E = ed.E
                /\ sel = {v} =>
                       s.selected_vertices = {} /\ s.V = ed.V /\ s.E = ed.E
                /\ \A u \in ed.V \ {v} :
                       sel = {u} =>
                           /\ s.selected_vertices = {}
                           /\ s.V = ed.V
                           /\ s.E = ed.E \cup {EdgeKey(ed, u, v)}

\* u and v are joined by an edge, in either direction
Adjacent(s, u, v) == <<u, v>> \in s.E \/ <<v, u>> \in s.E

\* C8: under 'add walk', the first pointer-down of a gesture makes the
\* clicked vertex the current vertex and adds no edge; a later pointer-down
\* on another vertex w adds exactly the edge (current, w) and makes w the
\* current vertex; a pointer-down on the current vertex ends the gesture
\* and adds no edge.
C8_Walk ==
    ed.tool = "add walk" =>
        \A p \in Pixels : \A c \in Hits(ed, p) :
            LET s == AfterDown(ed, p, c)
                w == Clicked(ed, c)
                current == ed.current_walk_vertex
            IN  IF current = None
                THEN s.current_walk_vertex = w /\ s.E = ed.E
                ELSE IF w = current
                THEN s.current_walk_vertex = None /\ s.E = ed.E
                ELSE /\ s.E = ed.E \cup {EdgeKey(ed, current, w)}
                     /\ s.current_walk_vertex = w

\* C9: under 'add clique', the first pointer-down of a gesture starts the
\* list with the clicked vertex; a later pointer-down on a vertex not in
\* the list joins it to every listed vertex, adds no other edge and appends
\* it; a pointer-down on a listed vertex ends the gesture and adds no edge;
\* the listed vertices are pairwise adjacent.
C9_Clique ==
    ed.tool = "add clique" =>
        /\ ed.current_clique # NoAttr =>
               \A i, j \in 1 .. Len(ed.current_clique) :
                   i # j => Adjacent(ed, ed.current_clique[i],
                                     ed.current_clique[j])
        /\ \A p \in Pixels : \A c \in Hits(ed, p) :
               LET s == AfterDown(ed, p, c)
                   w == Clicked(ed, c)
                   clique == ed.current_clique
               IN  IF clique = NoAttr
                   THEN s.current_clique = <<w>> /\ s.E = ed.E
                   ELSE IF InSeq(w, clique)
                   THEN s.current_clique = NoAttr /\ s.E = ed.E
                   ELSE /\ \A i \in 1 .. Len(clique) :
                               Adjacent(s, w, clique[i])
                        /\ \A e \in s.E \ ed.E :
                               \E i \in 1 .. Len(clique) :
                                   e \in {<<w, clique[i]>>, <<clique[i], w>>}
                        /\ s.current_clique = Append(clique, w)

\* The state after pointer-downs on the vertices of the sequence q
RECURSIVE AfterClicksOn(_, _)
AfterClicksOn(s, q) ==
    IF q = <<>> THEN s
    ELSE AfterClicksOn(AfterDown(s, _get_vertex_pos(s, Head(q)), Head(q)),
                       Tail(q))

\* C10: under 'add star', the first pointer-down of a gesture fixes the
\* center; a later pointer-down on a vertex that is neither the center nor
\* the current leaf adds exactly the edge (center, vertex) and makes the
\* vertex the current leaf; a pointer-down on the center or on the current
\* leaf ends the gesture, adds no edge and empties the selection; with no
\* gesture in progress, clicks on c, l1, l2, c add exactly the edges (c, l1)
\* and (c, l2) and leave no gesture in progress.
C10_Star ==
    ed.tool = "add star" =>
        /\ \A p \in Pixels : \A c \in Hits(ed, p) :
               LET s == AfterDown(ed, p, c)
                   w == Clicked(ed, c)
                   center == ed.current_star_center
               IN  IF center = None
                   THEN /\ s.current_star_center = w
                        /\ s.E = ed.E
                   ELSE IF w = center \/ w = ed.current_star_leaf
                   THEN /\ s.current_star_center = None
                        /\ s.current_star_leaf = None
                        /\ s.E = ed.E
                        /\ s.selected_vertices = {}
                   ELSE /\ s.E = ed.E \cup {EdgeKey(ed, center, w)}
                        /\ s.current_star_center = center
                        /\ s.current_star_leaf = w
        /\ ed.current_star_center = None =>
               \A c, l1, l2 \in ed.V :
                   Cardinality({c, l1, l2}) = 3 =>
                       LET s == AfterClicksOn(ed, <<c, l1, l2, c>>)
                       IN  /\ s.E = ed.E \cup {EdgeKey(ed, c, l1),
                                               EdgeKey(ed, c, l2)}
                           /\ s.V = ed.V
                           /\ s.current_star_center = None
                           /\ s.current_star_leaf = None

\* A star with a center, a leaf and a third vertex, where a click on the
\* third vertex draws the next ray and a click on the leaf ends the gesture
C10_Witness ==
    /\ ed.tool = "add star"
    /\ ed.current_star_center = 0
    /\ ed.current_star_leaf = 1
    /\ 2 \in ed.V
    /\ <<0, 2>> \notin ed.E
    /\ <<0, 2>> \in AfterDown(ed, _get_vertex_pos(ed, 2), 2).E
    /\ AfterDown(ed, _get_vertex_pos(ed, 1), 1).current_star_center = None

\* The sequences of at most MaxMoves pointer-moves over the pixels
MoveSeqs == UNION {[1 .. n -> DragPixels] : n \in 0 .. MaxMoves}

\* The state after the pointer-moves of the sequence q
RECURSIVE AfterMoves(_, _)
AfterMoves(s, q) ==
    IF q = <<>> THEN s
    ELSE AfterMoves(Captured(mouse_move_handler(s, Head(q)[1], Head(q)[2])),
                    Tail(q))

AfterUp(s, p) == Captured(mouse_up_handler(s, p[1], p[2]))

\* p1 is less than 10 pixels away from p0 on both axes
Near(p0, p1) == Abs(p1[1] - p0[1]) < 10 /\ Abs(p1[2] - p0[2]) < 10

\* C6: under 'select / move', after a pointer-down on the vertex v at p0,
\* any pointer-moves and a pointer-up (or leave) at p1: when p1 is less than
\* 10 pixels from p0 on both axes the membership of v in selected_vertices
\* is flipped and no other vertex changes membership; otherwise the
\* selection is as before the press and v is where the last pointer-move
\* put it (where it was, if there was none).
C6_ClickOrDrag ==
    ed.tool = "select / move" =>
        \A p0 \in DragPixels : \A v \in Hits(ed, p0) \ {None} :
            \A q \in MoveSeqs : \A p1 \in DragPixels :
                LET s1 == AfterDown(ed, p0, v)
                    s2 == AfterMoves(s1, q)
                    s3 == AfterUp(s2, p1)
                    sel == ed.selected_vertices
                IN  IF Near(p0, p1)
                    THEN /\ (v \in s3.selected_vertices) # (v \in sel)
                         /\ s3.selected_vertices \ {v} = sel \ {v}
                    ELSE /\ s3.selected_vertices = sel
                         /\ s3.pos = s2.pos
                         /\ IF q = <<>> THEN s3.pos = ed.pos
                            ELSE _get_vertex_pos(s3, v) = q[Len(q)]

\* A vertex pressed at (109, 109) and dragged to (120, 102), 11 pixels
\* away: the release there leaves the selection alone and the vertex at
\* (120, 102); it would have flipped the selection at (100, 100)
C6_Witness ==
    /\ ed.tool = "select / move"
    /\ ed.dragged_vertex \in ed.V
    /\ ed.initial_click_pos = <<109, 109>>
    /\ _get_vertex_pos(ed, ed.dragged_vertex) = <<120, 102>>
    /\ AfterUp(ed, <<120, 102>>).selected_vertices = ed.selected_vertices
    /\ AfterUp(ed, <<100, 100>>).selected_vertices # ed.selected_vertices

\* C7: under 'select / move', when a press on a vertex v, any pointer-moves
\* and the release end less than 10 pixels from the press point on both
\* axes, the stored position of v is what it was before the press.
C7_ClickCommitsNoMove ==
    ed.tool = "select / move" =>
        \A p0 \in DragPixels : \A v \in Hits(ed, p0) \ {None} :
            \A q \in MoveSeqs : \A p1 \in DragPixels :
                Near(p0, p1) =>
                    AfterUp(AfterMoves(AfterDown(ed, p0, v), q), p1).pos[v]
                        = ed.pos[v]

\* The state after a pointer-down at p whose hit tests return the pair t
AfterDownAt(s, p, t) ==
    Captured(mouse_down_handler(s, p[1], p[2], t[1], t[2]))

\* C11: under 'delete vertex or edge', a pointer-down on a vertex removes
\* that vertex with its incident edges, also when an edge is within
\* tolerance of the point; a pointer-down that hits no vertex and is within
\* tolerance of an edge removes that edge; any other pointer-down leaves
\* the graph as it is; nothing else is removed or changed.
C11_Delete ==
    ed.tool = "delete vertex or edge" =>
        \A p \in Pixels :
            /\ \A t \in ClickTargets(ed, p[1], p[2]) :
                   LET s == AfterDownAt(ed, p, t)
                       v == t[1]
                       e == t[2]
                       after ==
                           IF v # None
                           THEN [ed EXCEPT
                                    !.V = @ \ {v},
                                    !.E = {f \in @ : f[1] # v /\ f[2] # v},
                                    !.pos = DictDel(@, v)]
                           ELSE IF e # NoAttr
                           THEN [ed EXCEPT !.E = @ \ {e}]
                           ELSE ed
                   IN  /\ s = [after EXCEPT !.initial_click_pos = p]
                       /\ e # NoAttr => e \in ed.E
            /\ _get_vertices_pos_ok(ed) /\ VertexShapesAt(ed, p[1], p[2]) # {} =>
                   \A t \in ClickTargets(ed, p[1], p[2]) :
                       /\ t[1] \in VertexShapesAt(ed, p[1], p[2])
                       /\ t[2] = NoAttr

\* Vertices 0 and 1 joined by an edge that passes within tolerance of
\* (100, 100), where vertex 0 is: the click deletes vertex 0 and leaves
\* one vertex and no edge
C11_Witness ==
    /\ ed.tool = "delete vertex or edge"
    /\ ed.V = {0, 1}
    /\ Cardinality(ed.E) = 1
    /\ <<0, NoAttr>> \in ClickTargets(ed, 100, 100)
    /\ ed.E \subseteq EdgeBoxAt(ed, 100, 100)
    /\ AfterDownAt(ed, <<100, 100>>, <<0, NoAttr>>).V = {1}
    /\ AfterDownAt(ed, <<100, 100>>, <<0, NoAttr>>).E = {}

\* C12: dragged_vertex and dragging_canvas_from are never both set.
C12_DragOrPan ==
    ~(ed.dragged_vertex # None /\ ed.dragging_canvas_from # NoPoint)

\* C13: after a pointer-up or pointer-leave (both run mouse_up_handler)
\* neither a drag nor a pan is in progress.
C13_ReleaseEndsDragAndPan ==
    \A p \in DragPixels :
        /\ AfterUp(ed, p).dragged_vertex = None
        /\ AfterUp(ed, p).dragging_canvas_from = NoPoint

\* The vertex positions, the selections and the view transform of s and t
\* are the same
SameDrawing(s, t) ==
    /\ s.pos = t.pos
    /\ s.tm = t.tm
    /\ s.selected_vertices = t.selected_vertices
    /\ s.selected_edges = t.selected_edges

\* C14: when the tool is not 'select / move', a pointer-move or a
\* pointer-up changes no vertex position, no selection and not the view
\* transform.
C14_MoveAndUpOnlyUnderSelectMove ==
    ed.tool # "select / move" =>
        \A p \in DragPixels :
            /\ SameDrawing(AfterMoves(ed, <<p>>), ed)
            /\ SameDrawing(AfterUp(ed, p), ed)

\* Press points: the pixels and a point far from every vertex and edge
PanPixels == Pixels \cup {<<150, 150>>}

\* Release points around the press point p, 0, 9 or 10 pixels away on
\* each axis
Releases(p) ==
    {<<p[1] + dx, p[2] + dy>> : dx \in {-10, -9, 0, 9, 10},
                                dy \in {-10, 0, 9, 10}}

\* In s the hit test of a pointer-down at p completes and finds no vertex
\* and no edge
OnEmptyCanvas(s, p) ==
    /\ _get_vertices_pos_ok(s)
    /\ <<None, NoAttr>> \in ClickTargets(s, p[1], p[2])

\* After a pointer-down on the empty canvas at p, the pan has begun, and a
\* pointer-up at q less than 10 pixels away on both axes empties the two
\* selections while a pointer-up further away leaves them as they were
PanOrClear(s, p) ==
    LET s1 == AfterDownAt(s, p, <<None, NoAttr>>)
    IN  /\ s1.dragging_canvas_from = p
        /\ \A q \in Releases(p) :
               LET s2 == AfterUp(s1, q)
               IN  IF Near(p, q)
                   THEN /\ s2.selected_vertices = {}
                        /\ s2.selected_edges = {}
                   ELSE /\ s2.selected_vertices = s.selected_vertices
                        /\ s2.selected_edges = s.selected_edges

\* C15: under 'select / move', a pointer-down on the empty canvas begins a
\* pan; the following pointer-up empties both selections when it is less
\* than 10 pixels from the press on both axes and leaves them unchanged
\* otherwise.
C15_EmptyCanvasClick ==
    ed.tool = "select / move" =>
        \A p \in PanPixels : OnEmptyCanvas(ed, p) => PanOrClear(ed, p)

\* The results of the hit test at p that are an edge and no vertex
EdgeHits(s, p) ==
    IF ~_get_vertices_pos_ok(s) THEN {}
    ELSE {t \in ClickTargets(s, p[1], p[2]) : t[1] = None /\ t[2] # NoAttr}

\* C16: under 'select / move', a pointer-down that hits no vertex and is
\* near the edge e flips the membership of e in selected_edges, changes no
\* other selection, starts neither a vertex drag nor a pan, and a second
\* such pointer-down restores selected_edges.
C16_EdgeToggle ==
    ed.tool = "select / move" =>
        \A p \in Pixels : \A t \in EdgeHits(ed, p) :
            LET e == t[2]
                s1 == AfterDownAt(ed, p, t)
                s2 == AfterDownAt(s1, p, t)
            IN  /\ e \in ed.E
                /\ (e \in s1.selected_edges) # (e \in ed.selected_edges)
                /\ s1.selected_edges \ {e} = ed.selected_edges \ {e}
                /\ s1.selected_vertices = ed.selected_vertices
                /\ s1.dragged_vertex = ed.dragged_vertex
                /\ s1.dragging_canvas_from = ed.dragging_canvas_from
                /\ t \in EdgeHits(s1, p)
                /\ s2.selected_edges = ed.selected_edges
                /\ s2.selected_vertices = ed.selected_vertices

\* The edge under (120, 102) is selected, a vertex is selected too, and a
\* press there unselects the edge only
C16_Witness ==
    /\ ed.tool = "select / move"
    /\ ed.selected_vertices # {}
    /\ \E t \in EdgeHits(ed, <<120, 102>>) :
           /\ ed.selected_edges = {t[2]}
           /\ AfterDownAt(ed, <<120, 102>>, t).selected_edges = {}
           /\ AfterDownAt(ed, <<120, 102>>, t).selected_vertices
                  = ed.selected_vertices

\* C17: every key of vertex_radii and of colors is a vertex of the graph
\* and every key of edge_colors is an edge of the graph (in one orientation
\* or the other).
C17_StyleKeysInGraph ==
    /\ DOMAIN ed.vertex_radii \subseteq ed.V
    /\ DOMAIN ed.colors \subseteq ed.V
    /\ \A k \in DOMAIN ed.edge_colors :
           <<k[1], k[2]>> \in ed.E \/ <<k[2], k[1]>> \in ed.E

\* The layout request l is infeasible on the graph of s: planar on a
\* non-planar graph, forest on a directed graph or on a graph with a
\* cycle, directed acyclic on an undirected graph
Infeasible(s, l) ==
    \/ l = "planar" /\ ~is_planar(s)
    \/ l \in {"forest (root up)", "forest (root down)"}
           /\ (s.directed \/ ~is_forest(s))
    \/ l = "acyclic" /\ ~s.directed

\* The states the editor can be in after the layout request l
AfterLayout(s, l) ==
    {Captured(layout_selector_callback(s, l, new_pos, raises)) :
         new_pos \in Layouts(s), raises \in graph_layout_raises(s, l)}

\* C18: an infeasible layout request changes nothing in the editor: vertex
\* positions, view transform, selection and the gesture attributes
\* current_clique, current_walk_vertex, current_star_center and
\* current_star_leaf are as before the request.
C18_InfeasibleLayoutNoChange ==
    \A l \in LayoutNames :
        Infeasible(ed, l) => \A s \in AfterLayout(ed, l) : s = ed

\* C19: a layout request that the graph collaborator rejects ends with a
\* message in the text output and no exception leaves
\* layout_selector_callback.
C19_RejectedLayoutReported ==
    \A l \in LayoutNames : \A new_pos \in Layouts(ed) :
        TRUE \in graph_layout_raises(ed, l) =>
            /\ ~layout_selector_callback(ed, l, new_pos, TRUE).exc
            /\ layout_selector_text(ed, l, new_pos, TRUE)
                   # "Updating layout, please wait..."

\* Points at which _get_vertex_at is queried: the pixels, a point 15 pixels
\* from (100, 100) on both axes and a point at the same distance from
\* (100, 100) and (120, 102)
QueryPixels == Pixels \cup {<<85, 85>>, <<110, 101>>}

\* (x, y) is in the bounding box of v: less than the radius away from the
\* centre on each axis
InBox(s, v, q) ==
    /\ Abs(q[1] - _get_vertex_pos(s, v)[1]) < _get_radius(s, v)
    /\ Abs(q[2] - _get_vertex_pos(s, v)[2]) < _get_radius(s, v)

\* (x, y) is in the shape of v: in its bounding box and at most the radius
\* away from the centre
InShape(s, v, q) ==
    /\ InBox(s, v, q)
    /\ SqDist(s, v, q[1], q[2]) <= _get_radius(s, v) * _get_radius(s, v)

\* r is None when no vertex of K is given, and otherwise a vertex of K
\* whose centre is nearest to q
NearestOf(s, K, q, r) ==
    IF K = {} THEN r = None
    ELSE /\ r \in K
         /\ \A w \in K : SqDist(s, r, q[1], q[2]) <= SqDist(s, w, q[1], q[2])

\* C20 as stated: _get_vertex_at(x, y) returns the vertex with the nearest
\* centre among those whose bounding box contains (x, y), and None only
\* when no bounding box contains the point.
C20_NearestInBox ==
    _get_vertices_pos_ok(ed) =>
        \A q \in QueryPixels : \A r \in _get_vertex_at(ed, q[1], q[2]) :
            NearestOf(ed, {v \in ed.V : InBox(ed, v, q)}, q, r)

\* C20, amended: _get_vertex_at(x, y) returns a vertex with the nearest
\* centre among those whose shape contains (x, y) (bounding box and
\* Euclidean distance at most the radius), and None exactly when no shape
\* contains the point.
C20_NearestInShape ==
    _get_vertices_pos_ok(ed) =>
        \A q \in QueryPixels : \A r \in _get_vertex_at(ed, q[1], q[2]) :
            NearestOf(ed, {v \in ed.V : InShape(ed, v, q)}, q, r)

\* Two vertices at (100, 100) and (120, 102): (109, 109) is in both shapes
\* and the first is returned; (85, 85) is in the bounding box of the first
\* but in no shape, and None is returned
C20_Witness ==
    \E u \in ed.V : \E w \in ed.V :
        /\ _get_vertices_pos_ok(ed)
        /\ _get_vertex_pos(ed, u) = <<100, 100>>
        /\ _get_vertex_pos(ed, w) = <<120, 102>>
        /\ InShape(ed, u, <<109, 109>>) /\ InShape(ed, w, <<109, 109>>)
        /\ _get_vertex_at(ed, 109, 109) = {u}
        /\ InBox(ed, u, <<85, 85>>)
        /\ _get_vertex_at(ed, 85, 85) = {None}

\* The radii the radius box accepts
Radii == RadiusMin .. RadiusMax

\* The state after the radius r is typed in the radius box and the radius
\* button is clicked
AfterRadius(s, r) == Captured(radius_button_callback(vertex_radius_box_set(s, r)))

\* The points at distance d from c along one axis
AxisPoints(c, d) ==
    {<<c[1] + d, c[2]>>, <<c[1] - d, c[2]>>,
     <<c[1], c[2] + d>>, <<c[1], c[2] - d>>}

\* No vertex other than v has q in its shape
Alone(s, v, q) == \A w \in s.V \ {v} : ~InShape(s, w, q)

\* C21: for a vertex v of radius r, r between 1 and 100, a point r - 1
\* pixels from the centre of v along an axis resolves to v and a point
\* r + 1 pixels away along an axis resolves to None, when no other vertex
\* has the point in its shape.
C21_RadiusBoundary ==
    _get_vertices_pos_ok(ed) =>
        \A r \in Radii : \A v \in ed.selected_vertices \cap ed.V :
            LET s == AfterRadius(ed, r)
                c == _get_vertex_pos(s, v)
            IN  /\ _get_radius(s, v) = r
                /\ \A q \in AxisPoints(c, r - 1) :
                       Alone(s, v, q) => _get_vertex_at(s, q[1], q[2]) = {v}
                /\ \A q \in AxisPoints(c, r + 1) :
                       Alone(s, v, q) => _get_vertex_at(s, q[1], q[2]) = {None}

\* A selected vertex with another vertex in the graph: given radius 100,
\* the points 99 pixels from its centre resolve to it and those 101
\* pixels away to None
C21_Witness ==
    /\ _get_vertices_pos_ok(ed)
    /\ Cardinality(ed.V) = 2
    /\ \E v \in ed.selected_vertices \cap ed.V :
           LET s == AfterRadius(ed, RadiusMax)
               c == _get_vertex_pos(s, v)
           IN  /\ \E q \in AxisPoints(c, RadiusMax - 1) :
                      Alone(s, v, q) /\ _get_vertex_at(s, q[1], q[2]) = {v}
               /\ \E q \in AxisPoints(c, RadiusMax + 1) :
                      Alone(s, v, q) /\ _get_vertex_at(s, q[1], q[2]) = {None}

\* Points at which _get_edge_at is queried: the pixels and two points 3 and
\* 5 pixels under the middle of the segment from (100, 100) to (200, 100)
EdgeQueryPixels == Pixels \cup {<<150, 103>>, <<150, 105>>}

\* The square of the distance below which C22 accepts an edge: 10 pixels
EdgeTolerance == RInt(ClickThreshold * ClickThreshold)

\* C22: _get_edge_at(x, y) returns, among the edges whose bounding box
\* enlarged by 10 pixels contains (x, y), one whose line is nearest to the
\* point when that distance is below 10 pixels (its square below 100), and
\* None otherwise.
C22_EdgeWithinTenPixels ==
    \A q \in EdgeQueryPixels :
        _get_edge_at_ok(ed, q[1], q[2]) =>
            LET near == {e \in EdgeBoxAt(ed, q[1], q[2]) :
                            RLess(EdgeProjDist(ed, e, q[1], q[2]),
                                  EdgeTolerance)}
            IN  \A r \in _get_edge_at(ed, q[1], q[2]) :
                    IF near = {} THEN r = NoAttr
                    ELSE /\ r \in near
                         /\ \A f \in near :
                                ~RLess(EdgeProjDist(ed, f, q[1], q[2]),
                                       EdgeProjDist(ed, r, q[1], q[2]))

\* C23: in every state reached by zoom to fit, layout changes and the other
\* view operations the y-scale entry of the view transform is negative (the
\* y-flip set at construction is kept).
C23_YFlipKept == RLess(ed.tm.d, RInt(0))

\* C24: in every reachable state, for every configured canvas size and every
\* vertex radius the radius box accepts, the scale entries of the view
\* transform are nonzero (the transform is invertible, so that
\* _set_vertex_pos can apply the inverse).
C24_TransformInvertible == ed.tm.a[1] # 0 /\ ed.tm.d[1] # 0

\* The shape of vertex v of s (its centre p more or less its radius) lies
\* within the canvas less the margin of LayoutMargin pixels
ShapeInside(s, v, p) ==
    LET r == _get_radius(s, v)
    IN  /\ p[1] - r >= LayoutMargin
        /\ p[1] + r <= s.drawing_parameters.width - LayoutMargin
        /\ p[2] - r >= LayoutMargin
        /\ p[2] + r <= s.drawing_parameters.height - LayoutMargin

\* C25: after _normalize_layout on a non-empty vertex set the two scale
\* entries of the transform are equal and the shape of every vertex (centre
\* more or less radius) lies within the canvas bounds less the margin; on
\* the empty graph _normalize_layout leaves the transform unchanged.
C25_NormalizedShapesInside ==
    LET s == _normalize_layout(ed)
    IN  IF ed.V = {} THEN s.tm = ed.tm
        ELSE ~s.exc =>
                 /\ s.tm.a = s.tm.d
                 /\ \A v \in s.V : \A p \in _get_vertex_pos_values(s, v) :
                        ShapeInside(s, v, p)

\* C26: for every pixel (x, y) and every reachable view transform,
\* _set_vertex_pos(v, x, y) succeeds and _get_vertex_pos(v) is afterwards
\* within 1 pixel of (x, y) on each axis.
C26_RoundTrip ==
    \A v \in ed.V : \A q \in Pixels :
        LET s == _set_vertex_pos(ed, v, q[1], q[2])
        IN  /\ ~s.exc
            /\ \A p \in _get_vertex_pos_values(s, v) :
                   /\ Abs(p[1] - q[1]) <= 1
                   /\ Abs(p[2] - q[2]) <= 1

\* C27: _draw_graph first clears the surface and then paints in a fixed
\* order: no edge is painted after a vertex, and no vertex or edge is
\* painted after the first highlight (focus) of a selected vertex.
C27_HighlightsLast ==
    _draw_graph_ok(ed) =>
        \A names \in BOOLEAN :
            LET c == _draw_graph_commands(ed, names)
            IN  /\ c[1].op = "clear"
                /\ \A i \in 2 .. Len(c) : c[i].op # "clear"
                /\ \A i, j \in 1 .. Len(c) :
                       i < j =>
                           /\ c[i].v # None => c[j].v # None
                           /\ c[i].op = "focus" => c[j].op = "focus"

\* C28: the constructor on a graph that allows loops or multiple edges
\* raises ValueError("Cannot deal with graphs that allow loops or multiple
\* edges") and leaves no editor state; on a graph that allows neither it
\* gives an editor of that graph.
C28_ConstructionCheck ==
    \A G \in ConstructGraphs : \A c \in ConstructColors :
        \A rnd_pos \in RandomLayouts(G.V) :
            ed = __init__(G, [DefaultParameters
                                  EXCEPT !.default_edge_color = c],
                          rnd_pos, [v \in G.V |-> RandomColor])
            => IF G.allows_loops \/ G.allows_multiple_edges
               THEN /\ DOMAIN ed = {"raised", "message"}
                    /\ ed.raised = "ValueError"
                    /\ ed.message = "Cannot deal with graphs that allow loops or multiple edges"
               ELSE /\ IsEditor(ed)
                    /\ ~ed.exc
                    /\ ed.directed = G.directed /\ ed.V = G.V /\ ed.E = G.E

\* A constructor call on a graph that allows loops or multiple edges has
\* raised
C28_Witness == ~IsEditor(ed) /\ ed.raised = "ValueError"

\* The edges of s other than the one between u and v keep in t the colour
\* they have in s
OtherEdgesKeep(s, t, u, v) ==
    \A e \in s.E :
        (e # <<u, v>> /\ (s.directed \/ e # <<v, u>>)) =>
            get_edge_color(t, e[1], e[2]) = get_edge_color(s, e[1], e[2])

\* After the call that left t from s, the colour of the edge (u, v) is c,
\* also read as (v, u) on an undirected graph, and no other edge changed
ColorIs(s, t, u, v, c) ==
    /\ ~t.exc
    /\ get_edge_color(t, u, v) = c
    /\ ~t.directed => get_edge_color(t, v, u) = c
    /\ OtherEdgesKeep(s, t, u, v)

\* C29: after add_edge(u, v, color=c), and after set_edge_color((u, v), c)
\* on an existing edge, get_edge_color((u, v)) is c on undirected and on
\* directed graphs, get_edge_color((v, u)) is c too on an undirected graph,
\* and the colour of every other edge is unchanged.
C29_EdgeColorRoundTrip ==
    IsEditor(ed) =>
        \A u, v \in ed.V : \A c \in ConstructColors :
            u # v =>
                /\ ColorIs(ed, add_edge(ed, u, v, c), u, v, c)
                /\ has_edge(ed, u, v) =>
                       ColorIs(ed, set_edge_color(ed, u, v, c), u, v, c)

\* The editor s is as the constructor leaves it on one of ConstructGraphs
JustConstructed(s) ==
    \E G \in ConstructGraphs : \E c \in ConstructColors :
        \E rnd_pos \in RandomLayouts(G.V) :
            s = __init__(G, [DefaultParameters
                                 EXCEPT !.default_edge_color = c],
                         rnd_pos, [v \in G.V |-> RandomColor])

\* Every edge added to s without a colour has the colour default_edge_color
AddedEdgesDefault(s) ==
    \A u, v \in s.V :
        u # v =>
            LET t == add_edge(s, u, v, NoColor)
            IN  ~t.exc => get_edge_color(t, u, v)
                              = s.drawing_parameters.default_edge_color

\* C30: every edge of the graph given at construction, and every edge added
\* without an explicit colour, has the colour
\* drawing_parameters['default_edge_color'], whatever its value.
C30_DefaultEdgeColor ==
    IsEditor(ed) =>
        /\ JustConstructed(ed) =>
               \A e \in ed.E :
                   get_edge_color(ed, e[1], e[2])
                       = ed.drawing_parameters.default_edge_color
        /\ AddedEdgesDefault(ed)

\* Colours given to add_vertex_at: none, or an explicit one
GivenColors == {NoColor, "red"}

\* The vertex that add_vertex_at(q, color=color) creates in s and returns
\* has the radius in the radius box of s and the colour color, or the
\* colour picker's when color is None
CreatedAsBoxSays(s, q, color) ==
    LET t == add_vertex_at(s, q[1], q[2], None, color)
        name == add_vertex_at_returns(s, None)
    IN  ~t.exc =>
            /\ name \notin s.V /\ t.V = s.V \cup {name}
            /\ _get_radius(t, name) = s.vertex_radius_box
            /\ name \in DOMAIN t.vertex_radii
            /\ t.colors[name] = IF color = NoColor THEN ColorSelectorValue
                                ELSE color

\* C31: toggling the selection of a vertex (selecting or unselecting it)
\* sets the radius box to the radius of that vertex; a vertex created
\* afterwards by add_vertex_at has the radius in the radius box and the
\* given colour, or the colour picker's value when none is given, and
\* add_vertex_at returns its generated name.
C31_RadiusBoxFollowsSelection ==
    \A v \in ed.V :
        LET s == _select_vertex(ed, v, TRUE)
        IN  ~s.exc =>
                /\ s.vertex_radius_box = _get_radius(ed, v)
                /\ \A q \in ViewPixels : \A color \in GivenColors :
                       CreatedAsBoxSays(s, q, color)

\* A vertex whose radius is not the one in the radius box can be toggled,
\* and a vertex can be created afterwards
C31_Witness ==
    \E v \in ed.V :
        LET s == _select_vertex(ed, v, TRUE)
        IN  /\ ~s.exc
            /\ _get_radius(ed, v) # ed.vertex_radius_box
            /\ s.vertex_radius_box = RadiusMax
            /\ \E q \in ViewPixels :
                   LET t == add_vertex_at(s, q[1], q[2], None, "red")
                   IN  /\ ~t.exc
                       /\ \E n \in t.V \ s.V :
                              /\ t.vertex_radii[n] = RadiusMax
                              /\ t.colors[n] = "red"

\* C32: whenever a pointer-down is handled under 'add vertex or edge' while
\* more than one vertex is selected, the handler raises, wherever the click
\* lands (on a selected vertex, on an unselected vertex, on the empty
\* canvas).
C32_MultiSelectionIsFatal ==
    (ed.tool = "add vertex or edge" /\ Cardinality(ed.selected_vertices) > 1)
        => \A p \in ToolPixels : \A t \in ClickTargets(ed, p[1], p[2]) :
               mouse_down_handler(ed, p[1], p[2], t[1], t[2]).exc

\* The calls explored, those asking for a loop left out
ProperCalls ==
    {c \in AllCalls :
         c.name \in {"add_edge", "delete_edge"} => c.args[1] # c.args[2]}

\* The call c on the graph g notifies exactly once, after the mutation, with
\* the name of the mutator and the arguments of the call; and not at all
\* when the underlying method raises
NotifiedOnce(g, c) ==
    LET r == TalkyGraph_method(g, c)
        done == Graph_apply(g, c)
    IN  IF Graph_raises(g, c) THEN r.log = g.log
        ELSE r.log = Append(g.log, [name |-> c.name, args |-> c.args,
                                    V |-> done.V, E |-> done.E])

\* C33: each mutator of a TalkyGraph calls the notify callback exactly once,
\* after the underlying mutation, with its own name followed by the
\* arguments of the call (add_edges notifies 'add_edges'); a mutator whose
\* underlying call raises sends nothing, and the construction sends
\* nothing.
C33_NotifiedOnce ==
    (tg.callback = "given") =>
        /\ \A c \in ProperCalls : NotifiedOnce(tg, c)
        /\ \A n \in {0, MaxTalkyVertices} : TalkyGraph(n, "given").log = <<>>

\* The call c on g does what the method of Graph does: the same graph, the
\* same returned value, the same exception
AsGraph(g, c) ==
    LET r == TalkyGraph_method(g, c)
        done == Graph_apply(g, c)
    IN  IF Graph_raises(g, c)
        THEN r.raised = "ValueError" /\ r.V = g.V /\ r.E = g.E
        ELSE /\ r.raised = ""
             /\ r.V = done.V /\ r.E = done.E
             /\ r.ret = Graph_returns(g, c)

\* C34: on a TalkyGraph built without notify_callback every mutator call,
\* with or without arguments, succeeds as the method of Graph does and
\* returns what it returns.
C34_DefaultBehavesAsGraph ==
    (tg.callback = "default") => \A c \in ProperCalls : AsGraph(tg, c)

\* The gestures in progress in s
Gestures(s) ==
    {g \in {"add clique", "add walk", "add star"} :
         \/ g = "add clique" /\ s.current_clique # NoAttr
         \/ g = "add walk" /\ s.current_walk_vertex # None
         \/ g = "add star" /\ (\/ s.current_star_center # None
                               \/ s.current_star_leaf # None)}

\* C35: in every reachable state current_clique exists only if the active
\* tool is 'add clique', current_walk_vertex only if it is 'add walk',
\* current_star_center and current_star_leaf only if it is 'add star'; the
\* two star attributes are both set or both unset; at most one gesture is
\* in progress.
C35_GestureOfActiveTool ==
    /\ Gestures(ed) \subseteq {ed.tool}
    /\ (ed.current_star_center = None) <=> (ed.current_star_leaf = None)
    /\ Cardinality(Gestures(ed)) <= 1

\* A gesture is in progress under its tool
C35_Witness == Gestures(ed) = {ed.tool}

\* C36: in every state reached through pointer events, tool switches,
\* layout changes and 'clear drawing', every vertex of the graph has a
\* logical position, a radius entry and a colour entry, and get_edge_color
\* succeeds for every edge of the graph.
C36_DrawnElementsHaveData ==
    /\ \A v \in ed.V : /\ v \in DOMAIN ed.pos
                       /\ v \in DOMAIN ed.vertex_radii
                       /\ v \in DOMAIN ed.colors
    /\ \A e \in ed.E : get_edge_color(ed, e[1], e[2]) # KeyError

\* C37: in every reachable state every selected vertex is a vertex of the
\* graph, every selected edge is an edge of the graph, and dragged_vertex,
\* when set, is a vertex of the graph.
C37_SelectionInGraph ==
    /\ ed.selected_vertices \subseteq ed.V
    /\ \A e \in ed.selected_edges : has_edge(ed, e[1], e[2])
    /\ ed.dragged_vertex # None => ed.dragged_vertex \in ed.V

\* C38: while a walk gesture is in progress the selection is exactly the
\* current walk vertex; while a star gesture is in progress its center is
\* selected; under the walk and star tools, when no gesture is in progress
\* (it has ended) the selection is empty.
C38_GestureSelection ==
    /\ ed.current_walk_vertex # None =>
           ed.selected_vertices = {ed.current_walk_vertex}
    /\ ed.current_star_center # None =>
           ed.current_star_center \in ed.selected_vertices
    /\ (ed.tool \in {"add walk", "add star"} /\ Gestures(ed) = {}) =>
           ed.selected_vertices = {}

\* C39: no pointer-down handled by the add, walk, clique and star tools
\* calls add_edge(u, v) with u = v, and after any sequence of tool actions
\* the graph has no loop and at most one edge per pair of vertices.
C39_NoLoopAsked ==
    /\ ~ed.loop_asked
    /\ \A e \in ed.E : e[1] # e[2]
    /\ ~ed.directed => \A e \in ed.E : <<e[2], e[1]>> \notin ed.E

\* A gesture of the walk, clique or star tool has added an edge and goes on
C39_Witness ==
    /\ Gestures(ed) # {}
    /\ ed.E # {}
    /\ \E p \in ToolPixels : \E c \in _get_vertex_at(ed, p[1], p[2]) :
           /\ c # None
           /\ AfterDown(ed, p, c).E = ed.E
           /\ Gestures(AfterDown(ed, p, c)) = {}

\* C40: two editors built with the default graph argument share no mutable
\* state: a vertex or an edge added or deleted through one editor leaves the
\* graph and the positions of the other editor as they were.
C40_EditorsShareNothing ==
    [][/\ FirstMouseDown => GraphOf(other') = GraphOf(other)
       /\ SecondMouseDown => GraphOf(ed') = GraphOf(ed)]_vars

=============================================================================
